---- MODULE Spec2Model ----
(***************************************************************************)
(* SalesTracker persistence facade (src/src/services/database.js): the     *)
(* remote (Supabase) backend with its read cache, the localStorage         *)
(* fallback backend, and the analytics calculations built on the facade.   *)
(*                                                                         *)
(* Every facade call is one action: the call is awaited before the next    *)
(* one is issued.  A backend request of a remote call may return an error; *)
(* the parameter `fail` of an action names the request (1 = first request  *)
(* the call issues) that returns an error, 0 meaning none does.            *)
(***************************************************************************)
EXTENDS Integers, Sequences, FiniteSets, TLC

VARIABLES
  mode,     \* "remote" | "local": what useSupabase() answers (configuration)
  db,       \* remote tables, each a sequence of rows in insertion order
  ls,       \* localStorage collections, each a JSON array (absent key = <<>>)
  cache,    \* the Map `cache`: key -> [data, ts]
  now,      \* Date.now(), milliseconds
  nextId,   \* next identifier gen_random_uuid() / crypto.randomUUID() hands out
  calls,    \* facade calls made so far
  last,     \* the facade call that settled last
  prev,     \* the facade call that settled before it
  tz,       \* the browser's time zone (environment)
  faults,   \* how many of a call's backend requests may return an error (environment)
  budget,   \* how many calls the session makes
  inflight, \* calls issued and not yet settled: the list fetches on their way,
            \* how far a clearAllData that was not awaited has got, and the
            \* writes that have issued some of their requests
  ui        \* what the components hold in React state (useState)

vars == <<mode, db, ls, cache, now, nextId, calls, last, prev, tz, faults, budget, inflight,
          ui>>

----------------------------------------------------------------------------
(* Bounds of the model *)

MaxCalls == 3
MaxTicks == 2

(* Calls of a session in the other specifications *)
MaxFaultyCalls == 2
MaxLocalCalls == 3
MaxToggleCalls == 4
MaxInventoryCalls == 3
MaxDeductionCalls == 3
MaxAnalyticsCalls == 3

(* Requests of one call that may return an error (clearAllData issues nine) *)
MaxFaults == 9

(* One clock step; two steps exceed the cache's time to live. *)
TickMs == 61000

(* By how much a pause exceeds the cache's time to live when it does. *)
ExtraMs == 1

----------------------------------------------------------------------------
(* Values *)

\* undefined / null / absent identifier
NoId == 0

\* a value that may be null: null itself, or a present value
Null == [null |-> TRUE]
Some(v) == [null |-> FALSE, v |-> v]

Max(a, b) == IF a >= b THEN a ELSE b

Range(s) == {s[i] : i \in 1..Len(s)}

Reverse(s) == [i \in 1..Len(s) |-> s[Len(s) + 1 - i]]

\* Array.prototype.findIndex / find, 1-based; 0 when nothing matches
FindIndex(s, P(_)) ==
  IF \E i \in 1..Len(s) : P(s[i])
  THEN CHOOSE i \in 1..Len(s) : P(s[i]) /\ \A j \in 1..(i - 1) : ~P(s[j])
  ELSE 0

MapSeq(s, F(_)) == [i \in 1..Len(s) |-> F(s[i])]

RECURSIVE SumSeq(_)
SumSeq(s) == IF s = <<>> THEN 0 ELSE Head(s) + SumSeq(Tail(s))

\* x || '' on a string-or-undefined field; undefined is modelled as "undefined"
OrEmpty(x) == IF x = "undefined" THEN "" ELSE x

----------------------------------------------------------------------------
(* Read cache: database.js 17-52 *)

CACHE_TTL_MS == 2 * 60 * 1000

\* cache keys are the template strings of the facade, kept as their parts:
\* <<"inventory">>, <<"attendance:", start, end>>, ...
IsPrefix(p, k) == Len(p) <= Len(k) /\ \A i \in 1..Len(p) : k[i] = p[i]

\* cacheGet that treats an entry of exactly 2 minutes as expired
cacheGetEarly(c, t, key) ==
  IF key \notin DOMAIN c THEN Null
  ELSE IF t - c[key].ts >= CACHE_TTL_MS THEN Null
  ELSE c[key].data

\* what cacheGet(key) returns
cacheGet(c, t, key) ==
  IF key \notin DOMAIN c THEN Null
  ELSE IF t - c[key].ts > CACHE_TTL_MS THEN Null
  ELSE c[key].data

\* what cacheGet(key) leaves in the Map: an expired entry is deleted
cacheGetEvict(c, t, key) ==
  IF key \in DOMAIN c /\ t - c[key].ts > CACHE_TTL_MS
  THEN [k \in DOMAIN c \ {key} |-> c[k]]
  ELSE c

cacheSet(c, t, key, data) ==
  [k \in DOMAIN c \cup {key} |-> IF k = key THEN [data |-> data, ts |-> t] ELSE c[k]]

\* cacheInvalidate without its loop over the keys that start with the prefix
cacheInvalidateExactOnly(c, keyOrPrefix) ==
  [k \in DOMAIN c \ {keyOrPrefix} |-> c[k]]

cacheInvalidate(c, keyOrPrefix) ==
  IF keyOrPrefix \in DOMAIN c
  THEN [k \in DOMAIN c \ {keyOrPrefix} |-> c[k]]
  ELSE [k \in {x \in DOMAIN c : ~IsPrefix(keyOrPrefix, x)} |-> c[k]]

\* a write that runs only the first of its cacheInvalidate calls
cacheInvalidateFirst(c, keys) ==
  IF keys = <<>> THEN c ELSE cacheInvalidate(c, Head(keys))

RECURSIVE cacheInvalidateAll(_, _)
cacheInvalidateAll(c, keys) ==
  IF keys = <<>> THEN c ELSE cacheInvalidateAll(cacheInvalidate(c, Head(keys)), Tail(keys))

\* cachedRead(key, fetchFn): f is the outcome of fetchFn() were it invoked now,
\* [ok, val]; the result is the promise's outcome and the Map afterwards
cachedRead(c, t, key, f) ==
  LET hit == cacheGet(c, t, key)
      c1 == cacheGetEvict(c, t, key)
  IN IF ~hit.null
     THEN [ok |-> TRUE, val |-> hit, hit |-> TRUE, cache |-> c1, err |-> 0]
     ELSE IF ~f.ok
     THEN [ok |-> FALSE, val |-> Null, hit |-> FALSE, cache |-> c1, err |-> f.err]
     ELSE [ok |-> TRUE, val |-> f.val, hit |-> FALSE,
           cache |-> cacheSet(c1, t, key, f.val), err |-> 0]

----------------------------------------------------------------------------
(* Outcome of a backend function: whether its promise resolved, the value   *)
(* it resolved to, the tables and the id generator afterwards, and which of *)
(* the backend requests it issued returned an error (0: none).              *)

Resolved(val, d, nid, err) == [ok |-> TRUE, val |-> val, db |-> d, nid |-> nid, err |-> err]
Rejected(d, nid, err) == [ok |-> FALSE, val |-> Null, db |-> d, nid |-> nid, err |-> err]

\* outcome of a synchronous localStorage function
Local(val, s, nid) == [ok |-> TRUE, val |-> val, ls |-> s, nid |-> nid, err |-> 0]

HasId(rows, id) == \E i \in 1..Len(rows) : rows[i].id = id

----------------------------------------------------------------------------
(* Inventory and sales, remote: database.js 55-102, 260-292 *)

\* rows of `inventory` newest first (order by created_at desc), normalised
getInventorySupabase(d, fail) ==
  IF fail = 1 THEN Rejected(d, nextId, 1)
  ELSE Resolved(
         Some(MapSeq(Reverse(d.inventory),
                     LAMBDA row : [id |-> row.id, name |-> row.name, price |-> row.price,
                                   quantity |-> row.quantity,
                                   description |-> OrEmpty(row.description)])),
         d, nextId, 0)

saveInventoryItemSupabase(d, item, fail) ==
  LET row == [name |-> item.name, price |-> item.price, quantity |-> item.quantity,
              description |-> OrEmpty(item.description)]
  IN IF item.id # NoId
     THEN \* update(row).eq('id', item.id).select().single(): no row is an error
          IF fail = 1 \/ ~HasId(d.inventory, item.id)
          THEN Rejected(d, nextId, 1)
          ELSE Resolved(
                 Some([id |-> item.id] @@ row),
                 [d EXCEPT !.inventory =
                    MapSeq(d.inventory,
                           LAMBDA r : IF r.id = item.id THEN [id |-> r.id] @@ row ELSE r)],
                 nextId, 0)
     ELSE IF fail = 1
          THEN Rejected(d, nextId, 1)
          ELSE Resolved(
                 Some([id |-> nextId] @@ row),
                 [d EXCEPT !.inventory = Append(d.inventory, [id |-> nextId] @@ row)],
                 nextId + 1, 0)

\* sales.item_id references inventory(id) on delete set null (schema.sql 17)
deleteInventoryItemSupabase(d, id, fail) ==
  IF fail = 1 THEN Rejected(d, nextId, 1)
  ELSE Resolved(
         Null,
         [d EXCEPT !.inventory = SelectSeq(d.inventory, LAMBDA r : r.id # id),
                   !.sales = MapSeq(d.sales,
                                    LAMBDA r : IF r.item_id = id
                                               THEN [r EXCEPT !.item_id = NoId] ELSE r)],
         nextId, 0)

\* rows of `sales` newest first (order by date desc; dates grow with insertion)
getSalesSupabase(d, fail) ==
  IF fail = 1 THEN Rejected(d, nextId, 1)
  ELSE Resolved(
         Some(MapSeq(Reverse(d.sales),
                     LAMBDA row : [id |-> row.id, itemId |-> row.item_id,
                                   itemName |-> row.item_name, quantity |-> row.quantity,
                                   price |-> row.price, total |-> row.total,
                                   customerName |-> OrEmpty(row.customer_name),
                                   date |-> row.date])),
         d, nextId, 0)

\* recordSaleSupabase that takes the sale back when the inventory step fails
recordSaleSupabaseUndo(d, sale, fail) ==
  LET row == [id |-> nextId, item_id |-> sale.itemId, item_name |-> sale.itemName,
              quantity |-> sale.quantity, price |-> sale.price, total |-> sale.total,
              customer_name |-> OrEmpty(sale.customerName), date |-> sale.date]
      data == [id |-> row.id, itemId |-> row.item_id, itemName |-> row.item_name,
               quantity |-> row.quantity, price |-> row.price, total |-> row.total,
               customerName |-> row.customer_name, date |-> row.date]
  IN IF fail = 1 \/ (sale.itemId # NoId /\ ~HasId(d.inventory, sale.itemId))
     THEN Rejected(d, nextId, 1)
     ELSE IF fail \in {2, 3}
     THEN Rejected(d, nextId + 1, fail)
     ELSE Resolved(
            Some(data),
            [d EXCEPT !.sales = Append(d.sales, row),
                      !.inventory =
                        MapSeq(d.inventory,
                               LAMBDA r : IF r.id = sale.itemId
                                          THEN [r EXCEPT !.quantity = @ - sale.quantity]
                                          ELSE r)],
            nextId + 1, 0)

\* request 1: insert into sales; request 2: select inventory; request 3: update
\* inventory (its error is not looked at)
recordSaleSupabase(d, sale, fail) ==
  LET row == [id |-> nextId, item_id |-> sale.itemId, item_name |-> sale.itemName,
              quantity |-> sale.quantity, price |-> sale.price, total |-> sale.total,
              customer_name |-> OrEmpty(sale.customerName), date |-> sale.date]
      d1 == [d EXCEPT !.sales = Append(d.sales, row)]
      data == [id |-> row.id, itemId |-> row.item_id, itemName |-> row.item_name,
               quantity |-> row.quantity, price |-> row.price, total |-> row.total,
               customerName |-> row.customer_name, date |-> row.date]
      inv == getInventorySupabase(d1, IF fail = 2 THEN 1 ELSE 0)
  IN IF fail = 1 \/ (sale.itemId # NoId /\ ~HasId(d.inventory, sale.itemId))
     THEN Rejected(d, nextId, 1)
     ELSE IF ~inv.ok
     THEN Rejected(d1, nextId + 1, 2)
     ELSE LET idx == FindIndex(inv.val.v, LAMBDA i : i.id = sale.itemId)
          IN IF idx = 0
             THEN Resolved(Some(data), d1, nextId + 1, 0)
             ELSE IF fail = 3
             THEN Resolved(Some(data), d1, nextId + 1, 3)
             ELSE Resolved(
                    Some(data),
                    [d1 EXCEPT !.inventory =
                       MapSeq(d1.inventory,
                              LAMBDA r : IF r.id = sale.itemId
                                         THEN [r EXCEPT !.quantity =
                                                 inv.val.v[idx].quantity - sale.quantity]
                                         ELSE r)],
                    nextId + 1, 0)

----------------------------------------------------------------------------
(* Inventory and sales, fallback: database.js 427-447, 752-768 *)

getInventoryLocal(s) == s.inventory

saveInventoryItemLocal(s, item) ==
  LET existingIndex == FindIndex(s.inventory, LAMBDA i : i.id = item.id)
  IN Local(Some(item),
           [s EXCEPT !.inventory =
              IF existingIndex > 0
              THEN [s.inventory EXCEPT ![existingIndex] = item]
              ELSE Append(s.inventory, item)],
           nextId)

deleteInventoryItemLocal(s, id) ==
  Local(Null, [s EXCEPT !.inventory = SelectSeq(s.inventory, LAMBDA i : i.id # id)], nextId)

getSalesLocal(s) == s.sales

recordSaleLocal(s, sale) ==
  LET s1 == [s EXCEPT !.sales = Append(s.sales, sale)]
      idx == FindIndex(getInventoryLocal(s1), LAMBDA i : i.id = sale.itemId)
  IN IF idx = 0
     THEN Local(Some(sale), s1, nextId)
     ELSE LET item == [s1.inventory[idx] EXCEPT !.quantity = @ - sale.quantity]
          IN Local(Some(sale), saveInventoryItemLocal(s1, item).ls, nextId)

----------------------------------------------------------------------------
(* Ordering helpers *)

\* names are compared as strings: "A" < "B" < "C"
NameRank(n) == CASE n = "A" -> 1 [] n = "B" -> 2 [] OTHER -> 3

\* x put into the sorted t before the first row it is less than
InsertSorted(t, x, Lt(_, _)) ==
  LET k == FindIndex(t, LAMBDA y : Lt(x, y))
  IN IF k = 0 THEN Append(t, x)
     ELSE SubSeq(t, 1, k - 1) \o <<x>> \o SubSeq(t, k, Len(t))

\* a stable sort of s by Lt (rows that compare equal keep their order)
StableSort(s, Lt(_, _)) ==
  LET sorted[i \in 0..Len(s)] ==
        IF i = 0 THEN <<>> ELSE InsertSorted(sorted[i - 1], s[i], Lt)
  IN sorted[Len(s)]

\* s without the later occurrences of a value
RECURSIVE Dedupe(_)
Dedupe(s) ==
  IF s = <<>> THEN <<>>
  ELSE LET r == Dedupe(SubSeq(s, 1, Len(s) - 1))
       IN IF \E i \in 1..Len(r) : r[i] = s[Len(s)] THEN r ELSE Append(r, s[Len(s)])

----------------------------------------------------------------------------
(* Employees, remote: database.js 104-162 *)

\* a store_id must name a row of `stores` or be null (schema.sql 50)
StoreRefOk(d, sid) == sid = NoId \/ HasId(d.stores, sid)

MaxDisplayOrder(rows) ==
  IF rows = <<>> THEN -1
  ELSE CHOOSE m \in {rows[i].display_order : i \in 1..Len(rows)} :
         \A i \in 1..Len(rows) : rows[i].display_order <= m

\* order by display_order, then name; only id, name, salaryRate and storeId
\* are handed on
getEmployeesSupabase(d, fail) ==
  IF fail = 1 THEN Rejected(d, nextId, 1)
  ELSE Resolved(
         Some(MapSeq(StableSort(d.employees,
                             LAMBDA a, b : a.display_order < b.display_order
                                           \/ (a.display_order = b.display_order
                                               /\ NameRank(a.name) < NameRank(b.name))),
                     LAMBDA row : [id |-> row.id, name |-> row.name,
                                   salaryRate |-> row.salary_rate,
                                   storeId |-> row.store_id])),
         d, nextId, 0)

\* request k sets display_order = k - 1 on the row with id orderedEmployeeIds[k]
RECURSIVE updateEmployeeOrderSupabase(_, _, _, _)
updateEmployeeOrderSupabase(d, orderedEmployeeIds, i, fail) ==
  IF i > Len(orderedEmployeeIds) THEN Resolved(Null, d, nextId, 0)
  ELSE IF fail = i THEN Rejected(d, nextId, i)
  ELSE updateEmployeeOrderSupabase(
         [d EXCEPT !.employees =
            MapSeq(d.employees,
                   LAMBDA r : IF r.id = orderedEmployeeIds[i]
                              THEN [r EXCEPT !.display_order = i - 1] ELSE r)],
         orderedEmployeeIds, i + 1, fail)

\* creation: request 1 reads the largest display_order (its error is not looked
\* at: no row and an error both give display_order 0), request 2 inserts;
\* update: request 1 updates name, salary_rate and store_id
saveEmployeeSupabase(d, employee, fail) ==
  LET row == [name |-> employee.name, salary_rate |-> employee.salaryRate,
              store_id |-> employee.storeId]
      out(r) == [id |-> r.id, name |-> r.name, salaryRate |-> r.salary_rate,
                 storeId |-> r.store_id]
  IN IF employee.id # NoId
     THEN IF fail = 1 \/ ~HasId(d.employees, employee.id) \/ ~StoreRefOk(d, row.store_id)
          THEN Rejected(d, nextId, 1)
          ELSE Resolved(
                 Some(out([id |-> employee.id] @@ row)),
                 [d EXCEPT !.employees =
                    MapSeq(d.employees,
                           LAMBDA r : IF r.id = employee.id
                                      THEN [r EXCEPT !.name = row.name,
                                                     !.salary_rate = row.salary_rate,
                                                     !.store_id = row.store_id]
                                      ELSE r)],
                 nextId, 0)
     ELSE LET order == IF fail = 1 THEN 0 ELSE MaxDisplayOrder(d.employees) + 1
              full == [id |-> nextId, display_order |-> order] @@ row
          IN IF fail = 2 \/ ~StoreRefOk(d, row.store_id)
             THEN Rejected(d, nextId, 2)
             ELSE Resolved(Some(out(full)),
                           [d EXCEPT !.employees = Append(d.employees, full)],
                           nextId + 1, IF fail = 1 THEN 1 ELSE 0)

\* attendance, weekly_payments and weekly_deductions reference employees(id)
\* on delete cascade (schema.sql 66, 74, 83)
deleteEmployeeSupabase(d, id, fail) ==
  IF fail = 1 THEN Rejected(d, nextId, 1)
  ELSE Resolved(
         Null,
         [d EXCEPT !.employees = SelectSeq(d.employees, LAMBDA r : r.id # id),
                   !.attendance = SelectSeq(d.attendance, LAMBDA r : r.employee_id # id),
                   !.weekly_payments =
                      SelectSeq(d.weekly_payments, LAMBDA r : r.employee_id # id),
                   !.weekly_deductions =
                      SelectSeq(d.weekly_deductions, LAMBDA r : r.employee_id # id)],
         nextId, 0)

----------------------------------------------------------------------------
(* Employees, fallback: database.js 449-510 *)

getEmployeeOrderLocal(s) == s.employeeOrder

\* the rows in the order of the order list, then the rows it does not name;
\* by name when the order list is empty
OrderedLocal(rows, order) ==
  IF order = <<>>
  THEN StableSort(rows, LAMBDA a, b : NameRank(a.name) < NameRank(b.name))
  ELSE LET named == Dedupe(SelectSeq(order, LAMBDA id : HasId(rows, id)))
           first(id) == rows[FindIndex(rows, LAMBDA r : r.id = id)]
       IN MapSeq(named, first)
          \o SelectSeq(rows, LAMBDA r : \A i \in 1..Len(order) : order[i] # r.id)

getEmployeesLocal(s) ==
  OrderedLocal(MapSeq(s.employees,
                      LAMBDA e : [id |-> e.id, name |-> e.name,
                                  salaryRate |-> e.salaryRate, storeId |-> e.storeId]),
               getEmployeeOrderLocal(s))

updateEmployeeOrderLocal(s, orderedEmployeeIds) ==
  Local(Null, [s EXCEPT !.employeeOrder = orderedEmployeeIds], nextId)

saveEmployeeLocal(s, employee) ==
  LET fresh == employee.id = NoId
      emp == [id |-> IF fresh THEN nextId ELSE employee.id, name |-> employee.name,
              salaryRate |-> employee.salaryRate, storeId |-> employee.storeId]
      rawIndex == FindIndex(s.employees, LAMBDA e : e.id = emp.id)
  IN Local(Some(emp),
           IF rawIndex > 0
           THEN [s EXCEPT !.employees = [s.employees EXCEPT ![rawIndex] = emp]]
           ELSE [s EXCEPT !.employees = Append(s.employees, emp),
                          !.employeeOrder = Append(getEmployeeOrderLocal(s), emp.id)],
           IF fresh THEN nextId + 1 ELSE nextId)

deleteEmployeeLocal(s, id) ==
  Local(Null,
        [s EXCEPT !.employees = SelectSeq(s.employees, LAMBDA e : e.id # id),
                  !.employeeOrder = SelectSeq(getEmployeeOrderLocal(s), LAMBDA oid : oid # id)],
        nextId)

----------------------------------------------------------------------------
(* Dates.  A date string "YYYY-MM-DD" is its day number; an instant (the     *)
(* time value of a Date) is counted in hours, hour 0 being 00:00 UTC of day  *)
(* 0.  The time zone is [std, dst, from, to]: the offset from UTC in hours   *)
(* is dst for instants in [from, to) and std otherwise.  Days are counted    *)
(* from Sunday 2023-12-31, so that day d is a Sunday iff d % 7 = 0.          *)

HoursPerDay == 24

\* new Date("YYYY-MM-DD"): midnight UTC of that day
DateOf(day) == day * HoursPerDay

\* date.toISOString().slice(0, 10): the UTC day of the instant
ISODate(t) == t \div HoursPerDay

TzOffset(z, t) == IF z.from <= t /\ t < z.to THEN z.dst ELSE z.std

\* LocalTime(t)
LocalTime(z, t) == t + TzOffset(z, t)

\* UTC(local): a skipped or repeated local time takes the offset in force
\* before the transition
UTCTime(z, l) ==
  LET m == Max(z.std, z.dst)
  IN l - (IF z.from + m <= l /\ l < z.to + m THEN z.dst ELSE z.std)

\* d = new Date(start); d.setDate(start.getDate() - n): n days earlier on the
\* local calendar, at the same local time of day
SetDateMinus(z, t, n) == UTCTime(z, LocalTime(z, t) - n * HoursPerDay)

----------------------------------------------------------------------------
(* Attendance, weekly payments, weekly deductions, remote: database.js 164-258 *)

EmployeeRefOk(d, eid) == HasId(d.employees, eid)

getAttendanceForWeekSupabase(d, startDate, endDate, fail) ==
  IF fail = 1 THEN Rejected(d, nextId, 1)
  ELSE Resolved(
         Some(MapSeq(SelectSeq(d.attendance,
                               LAMBDA r : r.date >= startDate /\ r.date <= endDate),
                     LAMBDA row : [employeeId |-> row.employee_id, date |-> row.date])),
         d, nextId, 0)

getWeeklyPaymentsForWeekSupabase(d, weekStartStr, fail) ==
  IF fail = 1 THEN Rejected(d, nextId, 1)
  ELSE Resolved(
         Some(MapSeq(SelectSeq(d.weekly_payments, LAMBDA r : r.week_start = weekStartStr),
                     LAMBDA row : [employeeId |-> row.employee_id, paid |-> row.paid])),
         d, nextId, 0)

\* upsert on (employee_id, week_start)
setWeeklyPaidSupabase(d, employeeId, weekStartStr, paid, fail) ==
  LET idx == FindIndex(d.weekly_payments,
                       LAMBDA r : r.employee_id = employeeId /\ r.week_start = weekStartStr)
  IN IF fail = 1 \/ ~EmployeeRefOk(d, employeeId)
     THEN Rejected(d, nextId, 1)
     ELSE IF idx > 0
     THEN Resolved(Null, [d EXCEPT !.weekly_payments[idx].paid = paid], nextId, 0)
     ELSE Resolved(Null,
                   [d EXCEPT !.weekly_payments =
                      Append(@, [id |-> nextId, employee_id |-> employeeId,
                                 week_start |-> weekStartStr, paid |-> paid])],
                   nextId + 1, 0)

getDeductionsForWeekSupabase(d, weekStartStr, fail) ==
  IF fail = 1 THEN Rejected(d, nextId, 1)
  ELSE Resolved(
         Some(MapSeq(SelectSeq(d.weekly_deductions, LAMBDA r : r.week_start = weekStartStr),
                     LAMBDA row : [employeeId |-> row.employee_id, amount |-> row.amount])),
         d, nextId, 0)

\* byEmployee of getDeductionsForDateRange*: one entry per employee of rows, in
\* the order of their first row, with the sum of the employee's amounts
SumByEmployee(rows) ==
  MapSeq(Dedupe(MapSeq(rows, LAMBDA r : r.employeeId)),
         LAMBDA e : [employeeId |-> e,
                     amount |-> SumSeq(MapSeq(SelectSeq(rows, LAMBDA r : r.employeeId = e),
                                              LAMBDA r : r.amount))])

getDeductionsForDateRangeSupabase(d, z, startDate, endDate, fail) ==
  LET start == DateOf(startDate)
      startMinus6 == SetDateMinus(z, start, 6)
      weekStartFrom == ISODate(startMinus6)
  IN IF fail = 1 THEN Rejected(d, nextId, 1)
     ELSE Resolved(
            Some(SumByEmployee(
                   MapSeq(SelectSeq(d.weekly_deductions,
                                    LAMBDA r : r.week_start >= weekStartFrom
                                               /\ r.week_start <= endDate),
                          LAMBDA row : [employeeId |-> row.employee_id,
                                        amount |-> row.amount]))),
            d, nextId, 0)

\* upsert on (employee_id, week_start)
saveDeductionSupabase(d, employeeId, weekStartStr, amount, fail) ==
  LET idx == FindIndex(d.weekly_deductions,
                       LAMBDA r : r.employee_id = employeeId /\ r.week_start = weekStartStr)
  IN IF fail = 1 \/ ~EmployeeRefOk(d, employeeId)
     THEN Rejected(d, nextId, 1)
     ELSE IF idx > 0
     THEN Resolved(Null, [d EXCEPT !.weekly_deductions[idx].amount = amount], nextId, 0)
     ELSE Resolved(Null,
                   [d EXCEPT !.weekly_deductions =
                      Append(@, [id |-> nextId, employee_id |-> employeeId,
                                 week_start |-> weekStartStr, amount |-> amount])],
                   nextId + 1, 0)

\* request 1 looks the row up; request 2 deletes it, or inserts it
toggleAttendanceSupabase(d, employeeId, dateStr, fail) ==
  LET idx == FindIndex(d.attendance,
                       LAMBDA r : r.employee_id = employeeId /\ r.date = dateStr)
  IN IF fail = 1 THEN Rejected(d, nextId, 1)
     ELSE IF idx > 0
     THEN IF fail = 2 THEN Rejected(d, nextId, 2)
          ELSE Resolved(Some(FALSE),
                        [d EXCEPT !.attendance =
                           SelectSeq(@, LAMBDA r : r.id # d.attendance[idx].id)],
                        nextId, 0)
     ELSE IF fail = 2 \/ ~EmployeeRefOk(d, employeeId) THEN Rejected(d, nextId, 2)
          ELSE Resolved(Some(TRUE),
                        [d EXCEPT !.attendance =
                           Append(@, [id |-> nextId, employee_id |-> employeeId,
                                      date |-> dateStr])],
                        nextId + 1, 0)

----------------------------------------------------------------------------
(* Attendance, weekly payments, weekly deductions, fallback: database.js 512-607 *)

getAttendanceLocal(s) == s.attendance

getAttendanceForWeekLocal(s, startDate, endDate) ==
  MapSeq(SelectSeq(getAttendanceLocal(s),
                   LAMBDA a : a.date >= startDate /\ a.date <= endDate),
         LAMBDA a : [employeeId |-> a.employeeId, date |-> a.date])

\* toggleAttendanceLocal that pushes a row without looking for the pair
toggleAttendanceLocalPush(s, employeeId, dateStr) ==
  Local(Some(TRUE),
        [s EXCEPT !.attendance =
           Append(@, [id |-> nextId, employeeId |-> employeeId, date |-> dateStr])],
        nextId + 1)

toggleAttendanceLocal(s, employeeId, dateStr) ==
  LET idx == FindIndex(getAttendanceLocal(s),
                       LAMBDA a : a.employeeId = employeeId /\ a.date = dateStr)
  IN IF idx > 0
     THEN Local(Some(FALSE),
                [s EXCEPT !.attendance =
                   SubSeq(@, 1, idx - 1) \o SubSeq(@, idx + 1, Len(@))],
                nextId)
     ELSE Local(Some(TRUE),
                [s EXCEPT !.attendance =
                   Append(@, [id |-> nextId, employeeId |-> employeeId, date |-> dateStr])],
                nextId + 1)

getWeeklyPaymentsLocal(s) == s.weeklyPayments

getWeeklyPaymentsForWeekLocal(s, weekStartStr) ==
  MapSeq(SelectSeq(getWeeklyPaymentsLocal(s), LAMBDA p : p.weekStart = weekStartStr),
         LAMBDA p : [employeeId |-> p.employeeId, paid |-> p.paid])

\* setWeeklyPaidLocal that pushes the record without looking for the key
setWeeklyPaidLocalPush(s, employeeId, weekStartStr, paid) ==
  Local(Null,
        [s EXCEPT !.weeklyPayments =
           Append(@, [employeeId |-> employeeId, weekStart |-> weekStartStr,
                      paid |-> paid])],
        nextId)

setWeeklyPaidLocal(s, employeeId, weekStartStr, paid) ==
  LET idx == FindIndex(getWeeklyPaymentsLocal(s),
                       LAMBDA p : p.employeeId = employeeId /\ p.weekStart = weekStartStr)
      record == [employeeId |-> employeeId, weekStart |-> weekStartStr, paid |-> paid]
  IN Local(Null,
           [s EXCEPT !.weeklyPayments =
              IF idx > 0 THEN [@ EXCEPT ![idx] = record] ELSE Append(@, record)],
           nextId)

getDeductionsLocal(s) == s.weeklyDeductions

getDeductionsForWeekLocal(s, weekStartStr) ==
  MapSeq(SelectSeq(getDeductionsLocal(s), LAMBDA x : x.weekStart = weekStartStr),
         LAMBDA x : [employeeId |-> x.employeeId, amount |-> x.amount])

getDeductionsForDateRangeLocal(s, z, startDate, endDate) ==
  LET start == DateOf(startDate)
      end == DateOf(endDate)
      startMinus6 == SetDateMinus(z, start, 6)
  IN SumByEmployee(
       MapSeq(SelectSeq(getDeductionsLocal(s),
                        LAMBDA x : DateOf(x.weekStart) >= startMinus6
                                   /\ DateOf(x.weekStart) <= end),
              LAMBDA x : [employeeId |-> x.employeeId, amount |-> x.amount]))

saveDeductionLocal(s, employeeId, weekStartStr, amount) ==
  LET idx == FindIndex(getDeductionsLocal(s),
                       LAMBDA x : x.employeeId = employeeId /\ x.weekStart = weekStartStr)
      record == [employeeId |-> employeeId, weekStart |-> weekStartStr, amount |-> amount]
  IN Local(Null,
           [s EXCEPT !.weeklyDeductions =
              IF idx > 0 THEN [@ EXCEPT ![idx] = record] ELSE Append(@, record)],
           nextId)

----------------------------------------------------------------------------
(* Stores, store daily sales, store monthly expenses, remote: database.js 294-424 *)

DefaultColor(c) == IF c = "undefined" \/ c = "" THEN "#333333" ELSE c

StoreOut(row) ==
  [id |-> row.id, name |-> row.name, color |-> DefaultColor(row.color),
   monthlyRent |-> row.monthly_rent,
   monthlyUtilityBills |-> row.monthly_utility_bills,
   monthlyOtherExpenses |-> row.monthly_other_expenses,
   markupPercentage |-> row.markup_percentage]

getStoresSupabase(d, fail) ==
  IF fail = 1 THEN Rejected(d, nextId, 1)
  ELSE Resolved(
         Some(MapSeq(StableSort(d.stores,
                                LAMBDA a, b : a.display_order < b.display_order
                                              \/ (a.display_order = b.display_order
                                                  /\ NameRank(a.name) < NameRank(b.name))),
                     StoreOut)),
         d, nextId, 0)

\* update: request 1 updates the store; with a linkedEmployeeIds array request
\* 2 unlinks the store's employees and request 3 links the listed ones (the
\* errors of 2 and 3 are not looked at).  creation: request 1 reads the largest
\* display_order (error not looked at), request 2 inserts; linkedEmployeeIds is
\* not read
saveStoreSupabase(d, store, fail) ==
  LET row == [name |-> store.name, color |-> DefaultColor(store.color),
              monthly_rent |-> store.monthlyRent,
              monthly_utility_bills |-> store.monthlyUtilityBills,
              monthly_other_expenses |-> store.monthlyOtherExpenses,
              markup_percentage |-> store.markupPercentage]
  IN IF store.id # NoId
     THEN IF fail = 1 \/ ~HasId(d.stores, store.id)
          THEN Rejected(d, nextId, 1)
          ELSE LET d1 == [d EXCEPT !.stores =
                            MapSeq(@, LAMBDA r : IF r.id = store.id
                                                 THEN [id |-> r.id,
                                                       display_order |-> r.display_order] @@ row
                                                 ELSE r)]
                   data == [id |-> store.id, display_order |-> 0] @@ row
                   d2 == IF store.linkedEmployeeIds.null \/ fail = 2 THEN d1
                         ELSE [d1 EXCEPT !.employees =
                                 MapSeq(@, LAMBDA e : IF e.store_id = store.id
                                                      THEN [e EXCEPT !.store_id = NoId]
                                                      ELSE e)]
                   d3 == IF store.linkedEmployeeIds.null \/ fail = 3 THEN d2
                         ELSE [d2 EXCEPT !.employees =
                                 MapSeq(@, LAMBDA e : IF e.id \in store.linkedEmployeeIds.v
                                                      THEN [e EXCEPT !.store_id = store.id]
                                                      ELSE e)]
                   issued == IF store.linkedEmployeeIds.null THEN 1
                             ELSE IF store.linkedEmployeeIds.v = {} THEN 2 ELSE 3
               IN Resolved(Some(StoreOut(data)), d3, nextId,
                           IF fail \in 2..issued THEN fail ELSE 0)
     ELSE LET order == IF fail = 1 THEN 0 ELSE MaxDisplayOrder(d.stores) + 1
              full == [id |-> nextId, display_order |-> order] @@ row
          IN IF fail = 2
             THEN Rejected(d, nextId, 2)
             ELSE Resolved(Some(StoreOut(full)),
                           [d EXCEPT !.stores = Append(@, full)],
                           nextId + 1, IF fail = 1 THEN 1 ELSE 0)

\* store_daily_sales.store_id: on delete cascade (schema.sql 38);
\* employees.store_id: on delete set null (schema.sql 50)
deleteStoreSupabase(d, id, fail) ==
  IF fail = 1 THEN Rejected(d, nextId, 1)
  ELSE Resolved(
         Null,
         [d EXCEPT !.stores = SelectSeq(@, LAMBDA r : r.id # id),
                   !.store_daily_sales = SelectSeq(@, LAMBDA r : r.store_id # id),
                   !.employees = MapSeq(@, LAMBDA e : IF e.store_id = id
                                                      THEN [e EXCEPT !.store_id = NoId]
                                                      ELSE e)],
         nextId, 0)

getStoreSalesForWeekSupabase(d, startDate, endDate, fail) ==
  IF fail = 1 THEN Rejected(d, nextId, 1)
  ELSE Resolved(
         Some(MapSeq(SelectSeq(d.store_daily_sales,
                               LAMBDA r : r.date >= startDate /\ r.date <= endDate),
                     LAMBDA row : [storeId |-> row.store_id, date |-> row.date,
                                   amount |-> row.amount])),
         d, nextId, 0)

\* upsert on (store_id, date)
saveStoreDailySaleSupabase(d, storeId, dateStr, amount, fail) ==
  LET idx == FindIndex(d.store_daily_sales,
                       LAMBDA r : r.store_id = storeId /\ r.date = dateStr)
  IN IF fail = 1 \/ ~HasId(d.stores, storeId)
     THEN Rejected(d, nextId, 1)
     ELSE IF idx > 0
     THEN Resolved(Null, [d EXCEPT !.store_daily_sales[idx].amount = amount], nextId, 0)
     ELSE Resolved(Null,
                   [d EXCEPT !.store_daily_sales =
                      Append(@, [id |-> nextId, store_id |-> storeId, date |-> dateStr,
                                 amount |-> amount])],
                   nextId + 1, 0)

ExpensesOut(r) ==
  [monthlyRent |-> r.monthlyRent, monthlyUtilityBills |-> r.monthlyUtilityBills,
   monthlyEmployeeSalaries |-> r.monthlyEmployeeSalaries,
   monthlyOtherExpenses |-> r.monthlyOtherExpenses]

\* maybeSingle(): null when there is no row
getStoreMonthlyExpensesSupabase(d, storeId, yearMonth, fail) ==
  LET idx == FindIndex(d.store_monthly_expenses,
                       LAMBDA r : r.store_id = storeId /\ r.year_month = yearMonth)
  IN IF fail = 1 THEN Rejected(d, nextId, 1)
     ELSE IF idx = 0 THEN Resolved(Null, d, nextId, 0)
     ELSE Resolved(Some(ExpensesOut(d.store_monthly_expenses[idx])), d, nextId, 0)

\* upsert on (store_id, year_month)
saveStoreMonthlyExpensesSupabase(d, storeId, yearMonth, expenses, fail) ==
  LET idx == FindIndex(d.store_monthly_expenses,
                       LAMBDA r : r.store_id = storeId /\ r.year_month = yearMonth)
      row == [store_id |-> storeId, year_month |-> yearMonth] @@ ExpensesOut(expenses)
  IN IF fail = 1
     THEN Rejected(d, nextId, 1)
     ELSE IF idx > 0
     THEN Resolved(Null, [d EXCEPT !.store_monthly_expenses[idx] = row], nextId, 0)
     ELSE Resolved(Null, [d EXCEPT !.store_monthly_expenses = Append(@, row)], nextId, 0)

----------------------------------------------------------------------------
(* Stores, store daily sales, store monthly expenses, fallback: database.js 609-750 *)

getStoreOrderLocal(s) == s.storeOrder

getStoresLocal(s) ==
  OrderedLocal(MapSeq(s.stores,
                      LAMBDA x : [id |-> x.id, name |-> x.name, color |-> DefaultColor(x.color),
                                  monthlyRent |-> x.monthlyRent,
                                  monthlyUtilityBills |-> x.monthlyUtilityBills,
                                  monthlyOtherExpenses |-> x.monthlyOtherExpenses,
                                  markupPercentage |-> x.markupPercentage]),
               getStoreOrderLocal(s))

saveStoreLocal(s, store) ==
  LET fresh == store.id = NoId
      st == [id |-> IF fresh THEN nextId ELSE store.id, name |-> store.name,
             color |-> DefaultColor(store.color), monthlyRent |-> store.monthlyRent,
             monthlyUtilityBills |-> store.monthlyUtilityBills,
             monthlyOtherExpenses |-> store.monthlyOtherExpenses,
             markupPercentage |-> store.markupPercentage]
      rawIndex == FindIndex(s.stores, LAMBDA x : x.id = st.id)
      s1 == IF rawIndex > 0
            THEN [s EXCEPT !.stores = [@ EXCEPT ![rawIndex] = st]]
            ELSE [s EXCEPT !.stores = Append(@, st),
                           !.storeOrder = Append(getStoreOrderLocal(s), st.id)]
      s2 == IF store.linkedEmployeeIds.null THEN s1
            ELSE [s1 EXCEPT !.employees =
                    MapSeq(@, LAMBDA e :
                      LET inList == e.id \in store.linkedEmployeeIds.v
                          wasInStore == e.storeId = st.id
                      IN IF wasInStore /\ ~inList THEN [e EXCEPT !.storeId = NoId]
                         ELSE IF inList THEN [e EXCEPT !.storeId = st.id]
                         ELSE e)]
  IN Local(Some(st), s2, IF fresh THEN nextId + 1 ELSE nextId)

\* deleteStoreLocal that also unlinks the employees of the store
deleteStoreLocalUnlink(s, id) ==
  Local(Null,
        [s EXCEPT !.stores = SelectSeq(@, LAMBDA x : x.id # id),
                  !.storeOrder = SelectSeq(getStoreOrderLocal(s), LAMBDA oid : oid # id),
                  !.storeDailySales = SelectSeq(@, LAMBDA x : x.storeId # id),
                  !.employees = MapSeq(@, LAMBDA e : IF e.storeId = id
                                                     THEN [e EXCEPT !.storeId = NoId]
                                                     ELSE e)],
        nextId)

deleteStoreLocal(s, id) ==
  Local(Null,
        [s EXCEPT !.stores = SelectSeq(@, LAMBDA x : x.id # id),
                  !.storeOrder = SelectSeq(getStoreOrderLocal(s), LAMBDA oid : oid # id),
                  !.storeDailySales = SelectSeq(@, LAMBDA x : x.storeId # id)],
        nextId)

getStoreSalesLocal(s) == s.storeDailySales

\* getStoreSalesForWeekLocal that leaves the end date out
getStoreSalesForWeekLocalOpen(s, startDate, endDate) ==
  MapSeq(SelectSeq(getStoreSalesLocal(s),
                   LAMBDA x : x.date >= startDate /\ x.date < endDate),
         LAMBDA x : [storeId |-> x.storeId, date |-> x.date, amount |-> x.amount])

getStoreSalesForWeekLocal(s, startDate, endDate) ==
  MapSeq(SelectSeq(getStoreSalesLocal(s),
                   LAMBDA x : x.date >= startDate /\ x.date <= endDate),
         LAMBDA x : [storeId |-> x.storeId, date |-> x.date, amount |-> x.amount])

\* saveStoreDailySaleLocal that pushes a row without looking for the key
saveStoreDailySaleLocalPush(s, storeId, dateStr, amount) ==
  Local(Null,
        [s EXCEPT !.storeDailySales =
           Append(@, [storeId |-> storeId, date |-> dateStr, amount |-> amount])],
        nextId)

saveStoreDailySaleLocal(s, storeId, dateStr, amount) ==
  LET idx == FindIndex(getStoreSalesLocal(s),
                       LAMBDA x : x.storeId = storeId /\ x.date = dateStr)
      record == [storeId |-> storeId, date |-> dateStr, amount |-> amount]
  IN Local(Null,
           [s EXCEPT !.storeDailySales =
              IF idx > 0 THEN [@ EXCEPT ![idx] = record] ELSE Append(@, record)],
           nextId)

getStoreMonthlyExpensesLocal(s, storeId, yearMonth) ==
  LET idx == FindIndex(s.storeMonthlyExpenses,
                       LAMBDA r : r.storeId = storeId /\ r.yearMonth = yearMonth)
  IN IF idx = 0 THEN Null ELSE Some(ExpensesOut(s.storeMonthlyExpenses[idx]))

saveStoreMonthlyExpensesLocal(s, storeId, yearMonth, expenses) ==
  LET idx == FindIndex(s.storeMonthlyExpenses,
                       LAMBDA r : r.storeId = storeId /\ r.yearMonth = yearMonth)
      row == [storeId |-> storeId, yearMonth |-> yearMonth] @@ ExpensesOut(expenses)
  IN Local(Null,
           [s EXCEPT !.storeMonthlyExpenses =
              IF idx > 0 THEN [@ EXCEPT ![idx] = row] ELSE Append(@, row)],
           nextId)

----------------------------------------------------------------------------
(* clearAllData: database.js 935-962 *)

EmptyDb ==
  [inventory |-> <<>>, sales |-> <<>>, employees |-> <<>>, attendance |-> <<>>,
   weekly_payments |-> <<>>, weekly_deductions |-> <<>>, stores |-> <<>>,
   store_daily_sales |-> <<>>, store_monthly_expenses |-> <<>>]

EmptyStorage ==
  [inventory |-> <<>>, sales |-> <<>>, employees |-> <<>>, employeeOrder |-> <<>>,
   attendance |-> <<>>, weeklyPayments |-> <<>>, weeklyDeductions |-> <<>>,
   stores |-> <<>>, storeOrder |-> <<>>, storeDailySales |-> <<>>,
   storeMonthlyExpenses |-> <<>>]

\* the nine deletes of Promise.all, in the order written: request k empties its
\* table unless it returns an error, which nothing looks at; deleting stores,
\* employees and inventory also acts on the rows that reference them
clearAllDataSupabase(d, fail) ==
  LET storesGone == fail # 3
      employeesGone == fail # 7
      inventoryGone == fail # 9
  IN Resolved(
       Null,
       [store_monthly_expenses |-> IF fail = 1 THEN d.store_monthly_expenses ELSE <<>>,
        store_daily_sales |-> IF fail = 2 /\ ~storesGone THEN d.store_daily_sales ELSE <<>>,
        stores |-> IF storesGone THEN <<>> ELSE d.stores,
        weekly_deductions |->
          IF fail = 4 /\ ~employeesGone THEN d.weekly_deductions ELSE <<>>,
        weekly_payments |-> IF fail = 5 /\ ~employeesGone THEN d.weekly_payments ELSE <<>>,
        attendance |-> IF fail = 6 /\ ~employeesGone THEN d.attendance ELSE <<>>,
        employees |->
          IF employeesGone THEN <<>>
          ELSE MapSeq(d.employees, LAMBDA e : [e EXCEPT !.store_id = NoId]),
        sales |-> IF fail = 8
                  THEN MapSeq(d.sales, LAMBDA r : [r EXCEPT !.item_id = NoId])
                  ELSE <<>>,
        inventory |-> IF inventoryGone THEN <<>> ELSE d.inventory],
       nextId, fail)

clearAllDataLocal(s) == Local(Null, EmptyStorage, nextId)

----------------------------------------------------------------------------
(* The public API: database.js 770-962.  Each action is one awaited call.   *)

\* the call settles: it becomes `last`, and the one before it `prev`
Settle(op, fam, kind, arg, r, hit) ==
  /\ prev' = last
  /\ last' = [op |-> op, fam |-> fam, kind |-> kind, arg |-> arg, ok |-> r.ok,
              val |-> r.val, hit |-> hit, err |-> r.err]
  /\ calls' = calls + 1
  /\ UNCHANGED <<mode, now, tz, faults, budget, inflight, ui>>

\* useSupabase() ? cachedRead(key, fetch) : ...
RemoteRead(op, fam, arg, key, f) ==
  LET r == cachedRead(cache, now, key, f)
  IN /\ calls < budget
     /\ cache' = r.cache
     /\ UNCHANGED <<db, ls, nextId>>
     /\ Settle(op, fam, "list", arg, r, r.hit)

\* a fallback read that goes through cachedRead like the remote one
LocalReadCached(op, fam, arg, v) ==
  LET r == cachedRead(cache, now, <<op>> \o arg, [ok |-> TRUE, val |-> v, err |-> 0])
  IN /\ calls < budget
     /\ cache' = r.cache
     /\ UNCHANGED <<db, ls, nextId>>
     /\ Settle(op, fam, "list", arg, r, r.hit)

\* ... : Promise.resolve(readLocal())
LocalRead(op, fam, arg, v) ==
  /\ calls < budget
  /\ UNCHANGED <<db, ls, cache, nextId>>
  /\ Settle(op, fam, "list", arg, [ok |-> TRUE, val |-> v, err |-> 0], FALSE)

\* useSupabase() ? writeSupabase().then(() => cacheInvalidate(keys...)) : ...
RemoteWrite(op, fam, arg, r, keys) ==
  /\ calls < budget
  /\ db' = r.db
  /\ nextId' = r.nid
  /\ cache' = IF r.ok THEN cacheInvalidateAll(cache, keys) ELSE cache
  /\ UNCHANGED ls
  /\ Settle(op, fam, "write", arg, r, FALSE)

\* ... : Promise.resolve(writeLocal())
LocalWrite(op, fam, arg, r) ==
  /\ calls < budget
  /\ ls' = r.ls
  /\ nextId' = r.nid
  /\ UNCHANGED <<db, cache>>
  /\ Settle(op, fam, "write", arg, r, FALSE)

GetInventory(fail) ==
  IF mode = "remote"
  THEN RemoteRead("getInventory", "inventory", <<>>, <<"inventory">>,
                  getInventorySupabase(db, fail))
  ELSE fail = 0 /\ LocalRead("getInventory", "inventory", <<>>, Some(getInventoryLocal(ls)))

SaveInventoryItem(item, fail) ==
  IF mode = "remote"
  THEN RemoteWrite("saveInventoryItem", "inventory", item,
                   saveInventoryItemSupabase(db, item, fail), <<(<<"inventory">>)>>)
  ELSE fail = 0 /\ LocalWrite("saveInventoryItem", "inventory", item,
                              saveInventoryItemLocal(ls, item))

DeleteInventoryItem(id, fail) ==
  IF mode = "remote"
  THEN RemoteWrite("deleteInventoryItem", "inventory", id,
                   deleteInventoryItemSupabase(db, id, fail), <<(<<"inventory">>)>>)
  ELSE fail = 0 /\ LocalWrite("deleteInventoryItem", "inventory", id,
                              deleteInventoryItemLocal(ls, id))

GetSales(fail) ==
  IF mode = "remote"
  THEN RemoteRead("getSales", "sales", <<>>, <<"sales">>, getSalesSupabase(db, fail))
  ELSE fail = 0 /\ LocalRead("getSales", "sales", <<>>, Some(getSalesLocal(ls)))

RecordSale(sale, fail) ==
  IF mode = "remote"
  THEN RemoteWrite("recordSale", "sales", sale, recordSaleSupabase(db, sale, fail),
                   <<(<<"sales">>), (<<"inventory">>)>>)
  ELSE fail = 0 /\ LocalWrite("recordSale", "sales", sale, recordSaleLocal(ls, sale))

GetEmployees(fail) ==
  IF mode = "remote"
  THEN RemoteRead("getEmployees", "employees", <<>>, <<"employees">>,
                  getEmployeesSupabase(db, fail))
  ELSE fail = 0 /\ LocalRead("getEmployees", "employees", <<>>, Some(getEmployeesLocal(ls)))

SaveEmployee(employee, fail) ==
  IF mode = "remote"
  THEN RemoteWrite("saveEmployee", "employees", employee,
                   saveEmployeeSupabase(db, employee, fail), <<(<<"employees">>)>>)
  ELSE fail = 0 /\ LocalWrite("saveEmployee", "employees", employee,
                              saveEmployeeLocal(ls, employee))

DeleteEmployee(id, fail) ==
  IF mode = "remote"
  THEN RemoteWrite("deleteEmployee", "employees", id,
                   deleteEmployeeSupabase(db, id, fail), <<(<<"employees">>)>>)
  ELSE fail = 0 /\ LocalWrite("deleteEmployee", "employees", id, deleteEmployeeLocal(ls, id))

UpdateEmployeeOrder(orderedEmployeeIds, fail) ==
  IF mode = "remote"
  THEN RemoteWrite("updateEmployeeOrder", "employees", orderedEmployeeIds,
                   updateEmployeeOrderSupabase(db, orderedEmployeeIds, 1, fail),
                   <<(<<"employees">>)>>)
  ELSE fail = 0 /\ LocalWrite("updateEmployeeOrder", "employees", orderedEmployeeIds,
                              updateEmployeeOrderLocal(ls, orderedEmployeeIds))

GetAttendanceForWeek(startDate, endDate, fail) ==
  IF mode = "remote"
  THEN RemoteRead("getAttendanceForWeek", "attendance", <<startDate, endDate>>,
                  <<"attendance:", startDate, endDate>>,
                  getAttendanceForWeekSupabase(db, startDate, endDate, fail))
  ELSE fail = 0 /\ LocalRead("getAttendanceForWeek", "attendance", <<startDate, endDate>>,
                             Some(getAttendanceForWeekLocal(ls, startDate, endDate)))

ToggleAttendance(employeeId, dateStr, fail) ==
  IF mode = "remote"
  THEN RemoteWrite("toggleAttendance", "attendance", <<employeeId, dateStr>>,
                   toggleAttendanceSupabase(db, employeeId, dateStr, fail),
                   <<(<<"attendance:">>)>>)
  ELSE fail = 0 /\ LocalWrite("toggleAttendance", "attendance", <<employeeId, dateStr>>,
                              toggleAttendanceLocal(ls, employeeId, dateStr))

GetWeeklyPaymentsForWeek(weekStartStr, fail) ==
  IF mode = "remote"
  THEN RemoteRead("getWeeklyPaymentsForWeek", "weeklyPayments", <<weekStartStr>>,
                  <<"weeklyPayments:", weekStartStr>>,
                  getWeeklyPaymentsForWeekSupabase(db, weekStartStr, fail))
  ELSE fail = 0 /\ LocalRead("getWeeklyPaymentsForWeek", "weeklyPayments", <<weekStartStr>>,
                             Some(getWeeklyPaymentsForWeekLocal(ls, weekStartStr)))

SetWeeklyPaid(employeeId, weekStartStr, paid, fail) ==
  IF mode = "remote"
  THEN RemoteWrite("setWeeklyPaid", "weeklyPayments", <<employeeId, weekStartStr, paid>>,
                   setWeeklyPaidSupabase(db, employeeId, weekStartStr, paid, fail),
                   <<(<<"weeklyPayments:">>)>>)
  ELSE fail = 0 /\ LocalWrite("setWeeklyPaid", "weeklyPayments",
                              <<employeeId, weekStartStr, paid>>,
                              setWeeklyPaidLocal(ls, employeeId, weekStartStr, paid))

GetDeductionsForWeek(weekStartStr, fail) ==
  IF mode = "remote"
  THEN RemoteRead("getDeductionsForWeek", "deductions", <<weekStartStr>>,
                  <<"deductions:", weekStartStr>>,
                  getDeductionsForWeekSupabase(db, weekStartStr, fail))
  ELSE fail = 0 /\ LocalRead("getDeductionsForWeek", "deductions", <<weekStartStr>>,
                             Some(getDeductionsForWeekLocal(ls, weekStartStr)))

GetDeductionsForDateRange(startDate, endDate, fail) ==
  IF mode = "remote"
  THEN RemoteRead("getDeductionsForDateRange", "deductions", <<startDate, endDate>>,
                  <<"deductionsRange:", startDate, endDate>>,
                  getDeductionsForDateRangeSupabase(db, tz, startDate, endDate, fail))
  ELSE fail = 0 /\ LocalRead("getDeductionsForDateRange", "deductions",
                             <<startDate, endDate>>,
                             Some(getDeductionsForDateRangeLocal(ls, tz, startDate, endDate)))

SaveDeduction(employeeId, weekStartStr, amount, fail) ==
  IF mode = "remote"
  THEN RemoteWrite("saveDeduction", "deductions", <<employeeId, weekStartStr, amount>>,
                   saveDeductionSupabase(db, employeeId, weekStartStr, amount, fail),
                   <<(<<"deductions:">>), (<<"deductionsRange:">>)>>)
  ELSE fail = 0 /\ LocalWrite("saveDeduction", "deductions",
                              <<employeeId, weekStartStr, amount>>,
                              saveDeductionLocal(ls, employeeId, weekStartStr, amount))

GetStores(fail) ==
  IF mode = "remote"
  THEN RemoteRead("getStores", "stores", <<>>, <<"stores">>, getStoresSupabase(db, fail))
  ELSE fail = 0 /\ LocalRead("getStores", "stores", <<>>, Some(getStoresLocal(ls)))

StoreWriteKeys == <<(<<"stores">>), (<<"storeSales:">>), (<<"storeMonthlyExpenses:">>)>>

SaveStore(store, fail) ==
  IF mode = "remote"
  THEN RemoteWrite("saveStore", "stores", store, saveStoreSupabase(db, store, fail),
                   StoreWriteKeys)
  ELSE fail = 0 /\ LocalWrite("saveStore", "stores", store, saveStoreLocal(ls, store))

DeleteStore(id, fail) ==
  IF mode = "remote"
  THEN RemoteWrite("deleteStore", "stores", id, deleteStoreSupabase(db, id, fail),
                   StoreWriteKeys)
  ELSE fail = 0 /\ LocalWrite("deleteStore", "stores", id, deleteStoreLocal(ls, id))

GetStoreSalesForWeek(startDate, endDate, fail) ==
  IF mode = "remote"
  THEN RemoteRead("getStoreSalesForWeek", "storeSales", <<startDate, endDate>>,
                  <<"storeSales:", startDate, endDate>>,
                  getStoreSalesForWeekSupabase(db, startDate, endDate, fail))
  ELSE fail = 0 /\ LocalRead("getStoreSalesForWeek", "storeSales", <<startDate, endDate>>,
                             Some(getStoreSalesForWeekLocal(ls, startDate, endDate)))

SaveStoreDailySale(storeId, dateStr, amount, fail) ==
  IF mode = "remote"
  THEN RemoteWrite("saveStoreDailySale", "storeSales", <<storeId, dateStr, amount>>,
                   saveStoreDailySaleSupabase(db, storeId, dateStr, amount, fail),
                   <<(<<"storeSales:">>)>>)
  ELSE fail = 0 /\ LocalWrite("saveStoreDailySale", "storeSales",
                              <<storeId, dateStr, amount>>,
                              saveStoreDailySaleLocal(ls, storeId, dateStr, amount))

GetStoreMonthlyExpenses(storeId, yearMonth, fail) ==
  IF mode = "remote"
  THEN RemoteRead("getStoreMonthlyExpenses", "storeMonthlyExpenses", <<storeId, yearMonth>>,
                  <<"storeMonthlyExpenses:", storeId, ":", yearMonth>>,
                  getStoreMonthlyExpensesSupabase(db, storeId, yearMonth, fail))
  ELSE fail = 0 /\ LocalRead("getStoreMonthlyExpenses", "storeMonthlyExpenses",
                             <<storeId, yearMonth>>,
                             getStoreMonthlyExpensesLocal(ls, storeId, yearMonth))

SaveStoreMonthlyExpenses(storeId, yearMonth, expenses, fail) ==
  IF mode = "remote"
  THEN RemoteWrite("saveStoreMonthlyExpenses", "storeMonthlyExpenses",
                   <<storeId, yearMonth, expenses>>,
                   saveStoreMonthlyExpensesSupabase(db, storeId, yearMonth, expenses, fail),
                   <<(<<"storeMonthlyExpenses:", storeId, ":", yearMonth>>)>>)
  ELSE fail = 0 /\ LocalWrite("saveStoreMonthlyExpenses", "storeMonthlyExpenses",
                              <<storeId, yearMonth, expenses>>,
                              saveStoreMonthlyExpensesLocal(ls, storeId, yearMonth, expenses))

\* cache.clear() comes first, on both backends
ClearAllData(fail) ==
  /\ calls < budget
  /\ IF mode = "remote"
     THEN LET r == clearAllDataSupabase(db, fail)
          IN /\ db' = r.db
             /\ cache' = <<>>
             /\ UNCHANGED <<ls, nextId>>
             /\ Settle("clearAllData", "all", "write", <<>>, r, FALSE)
     ELSE /\ fail = 0
          /\ ls' = EmptyStorage
          /\ cache' = <<>>
          /\ UNCHANGED <<db, nextId>>
          /\ Settle("clearAllData", "all", "write", <<>>, clearAllDataLocal(ls), FALSE)

\* time passes between calls (it is read only to age the entries of the cache)
Tick ==
  /\ cache # <<>>
  /\ now < MaxTicks * TickMs
  /\ now' = now + TickMs
  /\ UNCHANGED <<mode, db, ls, cache, nextId, calls, last, prev, tz, faults, budget, inflight, ui>>

\* a longer pause between two calls
Elapse(ms) ==
  /\ now + ms <= 2 * CACHE_TTL_MS + ExtraMs
  /\ now' = now + ms
  /\ UNCHANGED <<mode, db, ls, cache, nextId, calls, last, prev, tz, faults, budget, inflight, ui>>

----------------------------------------------------------------------------
(* Calls that are not awaited.  A list call whose cachedRead misses sends   *)
(* its request and stores the answer when it arrives (database.js 45-52);   *)
(* clearAllData empties the Map first and then sends its nine deletes       *)
(* (935-949).  Between these steps other calls run.                         *)

\* fetchFn() of a list call
fetchFn(d, op, arg) ==
  CASE op = "getInventory" -> getInventorySupabase(d, 0)
    [] op = "getSales" -> getSalesSupabase(d, 0)
    [] op = "getEmployees" -> getEmployeesSupabase(d, 0)
    [] op = "getStores" -> getStoresSupabase(d, 0)
    [] op = "getAttendanceForWeek" -> getAttendanceForWeekSupabase(d, arg[1], arg[2], 0)
    [] op = "getStoreSalesForWeek" -> getStoreSalesForWeekSupabase(d, arg[1], arg[2], 0)

\* cachedRead(key, fetchFn) up to fetchFn(): a miss, and the request leaves
IssueRead(op, fam, arg, key) ==
  /\ calls < budget
  /\ mode = "remote"
  /\ cacheGet(cache, now, key).null
  /\ cache' = cacheGetEvict(cache, now, key)
  /\ inflight' = [inflight EXCEPT !.reads =
                    Append(@, [op |-> op, fam |-> fam, arg |-> arg, key |-> key,
                               answered |-> FALSE, data |-> Null])]
  /\ calls' = calls + 1
  /\ UNCHANGED <<mode, db, ls, now, nextId, last, prev, tz, faults, budget, ui>>

\* the backend runs the select of the i-th request in flight
ServeRead(i) ==
  /\ i \in 1..Len(inflight.reads)
  /\ ~inflight.reads[i].answered
  /\ inflight' = [inflight EXCEPT !.reads[i].answered = TRUE,
                                  !.reads[i].data =
                                    fetchFn(db, inflight.reads[i].op,
                                            inflight.reads[i].arg).val]
  /\ UNCHANGED <<mode, db, ls, cache, now, nextId, calls, last, prev, tz, faults, budget, ui>>

\* .then((data) => { cacheSet(key, data); return data; })
SettleRead(i) ==
  /\ i \in 1..Len(inflight.reads)
  /\ inflight.reads[i].answered
  /\ LET rd == inflight.reads[i]
     IN /\ cache' = cacheSet(cache, now, rd.key, rd.data)
        /\ prev' = last
        /\ last' = [op |-> rd.op, fam |-> rd.fam, kind |-> "list", arg |-> rd.arg, ok |-> TRUE,
                    val |-> rd.data, hit |-> FALSE, err |-> 0]
        /\ inflight' = [inflight EXCEPT !.reads =
                          SubSeq(@, 1, i - 1) \o SubSeq(@, i + 1, Len(@))]
  /\ UNCHANGED <<mode, db, ls, now, nextId, calls, tz, faults, budget, ui>>

\* the sequence s without its i-th element
Without(s, i) == SubSeq(s, 1, i - 1) \o SubSeq(s, i + 1, Len(s))

\* an in-flight call settles: it becomes `last`
SettleInFlight(op, fam, kind, arg, ok, val) ==
  /\ prev' = last
  /\ last' = [op |-> op, fam |-> fam, kind |-> kind, arg |-> arg, ok |-> ok,
              val |-> val, hit |-> FALSE, err |-> 0]

\* recordSaleSupabase(sale), first request: the sale is inserted
SaleInsert(sale) ==
  LET row == [id |-> nextId, item_id |-> sale.itemId, item_name |-> sale.itemName,
              quantity |-> sale.quantity, price |-> sale.price, total |-> sale.total,
              customer_name |-> OrEmpty(sale.customerName), date |-> sale.date]
  IN /\ calls < budget
     /\ mode = "remote"
     /\ HasId(db.inventory, sale.itemId)
     /\ db' = [db EXCEPT !.sales = Append(@, row)]
     /\ nextId' = nextId + 1
     /\ inflight' = [inflight EXCEPT !.writes =
                       Append(@, [op |-> "recordSale", stage |-> "inserted", sale |-> sale,
                                  id |-> row.id, quantity |-> Null])]
     /\ calls' = calls + 1
     /\ UNCHANGED <<mode, ls, cache, now, last, prev, tz, faults, budget, ui>>

\* second request: getInventorySupabase() and inventory.find(...)
SaleReadInventory(i) ==
  /\ i \in 1..Len(inflight.writes)
  /\ inflight.writes[i].op = "recordSale" /\ inflight.writes[i].stage = "inserted"
  /\ LET inv == getInventorySupabase(db, 0).val.v
         idx == FindIndex(inv, LAMBDA it : it.id = inflight.writes[i].sale.itemId)
     IN inflight' = [inflight EXCEPT
                       !.writes[i].stage = "read",
                       !.writes[i].quantity = IF idx = 0 THEN Null ELSE Some(inv[idx].quantity)]
  /\ UNCHANGED <<mode, db, ls, cache, now, nextId, calls, last, prev, tz, faults, budget, ui>>

\* third request: update({ quantity: item.quantity - sale.quantity })
SaleUpdateInventory(i) ==
  /\ i \in 1..Len(inflight.writes)
  /\ inflight.writes[i].op = "recordSale" /\ inflight.writes[i].stage = "read"
  /\ LET w == inflight.writes[i]
     IN db' = IF w.quantity.null THEN db
              ELSE [db EXCEPT !.inventory =
                      MapSeq(@, LAMBDA r : IF r.id = w.sale.itemId
                                           THEN [r EXCEPT !.quantity =
                                                   w.quantity.v - w.sale.quantity]
                                           ELSE r)]
  /\ inflight' = [inflight EXCEPT !.writes[i].stage = "updated"]
  /\ UNCHANGED <<mode, ls, cache, now, nextId, calls, last, prev, tz, faults, budget, ui>>

\* recordSale's promise resolves: cacheInvalidate('sales'), ('inventory')
SaleSettle(i) ==
  /\ i \in 1..Len(inflight.writes)
  /\ inflight.writes[i].op = "recordSale" /\ inflight.writes[i].stage = "updated"
  /\ cache' = cacheInvalidateAll(cache, <<(<<"sales">>), (<<"inventory">>)>>)
  /\ SettleInFlight("recordSale", "sales", "write", inflight.writes[i].sale, TRUE,
                    Some([id |-> inflight.writes[i].id]))
  /\ inflight' = [inflight EXCEPT !.writes = Without(@, i)]
  /\ UNCHANGED <<mode, db, ls, now, nextId, calls, tz, faults, budget, ui>>

\* handleCellClick(employeeId, dateStr) calls toggleAttendance: the first request
\* of toggleAttendanceSupabase, select('id') ... maybeSingle()
ToggleSelect(employeeId, dateStr) ==
  LET idx == FindIndex(db.attendance,
                       LAMBDA r : r.employee_id = employeeId /\ r.date = dateStr)
  IN /\ calls < budget
     /\ mode = "remote"
     /\ inflight' = [inflight EXCEPT !.writes =
                       Append(@, [op |-> "toggleAttendance", stage |-> "selected",
                                  employeeId |-> employeeId, date |-> dateStr,
                                  existing |-> IF idx = 0 THEN Null
                                               ELSE Some(db.attendance[idx].id),
                                  ok |-> TRUE, result |-> FALSE])]
     /\ calls' = calls + 1
     /\ UNCHANGED <<mode, db, ls, cache, now, nextId, last, prev, tz, faults, budget, ui>>

\* second request: delete().eq('id', existing.data.id), which removes the row
\* if it is still there, or insert(...), which unique(employee_id, date) and the
\* employee reference can refuse
ToggleWrite(i) ==
  /\ i \in 1..Len(inflight.writes)
  /\ inflight.writes[i].op = "toggleAttendance" /\ inflight.writes[i].stage = "selected"
  /\ LET w == inflight.writes[i]
         taken == \E k \in 1..Len(db.attendance) :
                    /\ db.attendance[k].employee_id = w.employeeId
                    /\ db.attendance[k].date = w.date
     IN IF ~w.existing.null
        THEN /\ db' = [db EXCEPT !.attendance =
                         SelectSeq(@, LAMBDA r : r.id # w.existing.v)]
             /\ nextId' = nextId
             /\ inflight' = [inflight EXCEPT !.writes[i].stage = "written",
                                             !.writes[i].result = FALSE]
        ELSE IF taken \/ ~EmployeeRefOk(db, w.employeeId)
        THEN /\ UNCHANGED <<db, nextId>>
             /\ inflight' = [inflight EXCEPT !.writes[i].stage = "written",
                                             !.writes[i].ok = FALSE]
        ELSE /\ db' = [db EXCEPT !.attendance =
                         Append(@, [id |-> nextId, employee_id |-> w.employeeId,
                                    date |-> w.date])]
             /\ nextId' = nextId + 1
             /\ inflight' = [inflight EXCEPT !.writes[i].stage = "written",
                                             !.writes[i].result = TRUE]
  /\ UNCHANGED <<mode, ls, cache, now, calls, last, prev, tz, faults, budget, ui>>

\* setAttendance((prev) => ...) of handleCellClick: the pair is taken out of the
\* list when it is there and appended when it is not
setAttendance(shown, employeeId, dateStr) ==
  IF \E k \in 1..Len(shown) : shown[k].employeeId = employeeId /\ shown[k].date = dateStr
  THEN SelectSeq(shown, LAMBDA a : ~(a.employeeId = employeeId /\ a.date = dateStr))
  ELSE Append(shown, [employeeId |-> employeeId, date |-> dateStr])

\* toggleAttendance's promise settles: cacheInvalidate('attendance:') when it
\* resolved, and handleCellClick goes on to setAttendance, or to setError
ToggleSettle(i) ==
  /\ i \in 1..Len(inflight.writes)
  /\ inflight.writes[i].op = "toggleAttendance" /\ inflight.writes[i].stage = "written"
  /\ LET w == inflight.writes[i]
     IN /\ cache' = IF w.ok THEN cacheInvalidate(cache, <<"attendance:">>) ELSE cache
        /\ ui' = IF w.ok
                 THEN [ui EXCEPT !.attendance = setAttendance(@, w.employeeId, w.date)]
                 ELSE ui
        /\ SettleInFlight("toggleAttendance", "attendance", "write",
                          <<w.employeeId, w.date>>, w.ok, Some(w.result))
  /\ inflight' = [inflight EXCEPT !.writes = Without(@, i)]
  /\ UNCHANGED <<mode, db, ls, now, nextId, calls, tz, faults, budget>>

\* a creation that answers every display_order with the column's default
nextDisplayOrderDefault(maxRow) == 0

\* row.display_order = (maxRow?.display_order ?? -1) + 1
nextDisplayOrder(maxRow) == (IF maxRow.null THEN -1 ELSE maxRow.v) + 1

\* saveEmployee(employee) or saveStore(store) without an id, first request:
\* select('display_order').order(descending).limit(1).maybeSingle()
CreateReadMax(op, input) ==
  LET table == IF op = "saveEmployee" THEN db.employees ELSE db.stores
  IN /\ calls < budget
     /\ mode = "remote"
     /\ input.id = NoId
     /\ inflight' = [inflight EXCEPT !.writes =
                       Append(@, [op |-> op, stage |-> "read", input |-> input,
                                  maxRow |-> IF table = <<>> THEN Null
                                             ELSE Some(MaxDisplayOrder(table)),
                                  seen |-> nextId, ok |-> TRUE, data |-> Null])]
     /\ calls' = calls + 1
     /\ UNCHANGED <<mode, db, ls, cache, now, nextId, last, prev, tz, faults, budget, ui>>

\* second request: insert(row).select().single(), with the display_order
\* worked out from the first request's answer
CreateInsert(i) ==
  /\ i \in 1..Len(inflight.writes)
  /\ inflight.writes[i].op \in {"saveEmployee", "saveStore"}
  /\ inflight.writes[i].stage = "read"
  /\ LET w == inflight.writes[i]
         order == nextDisplayOrder(w.maxRow)
         employee == [id |-> nextId, display_order |-> order, name |-> w.input.name,
                      salary_rate |-> w.input.salaryRate, store_id |-> w.input.storeId]
         store == [id |-> nextId, display_order |-> order, name |-> w.input.name,
                   color |-> DefaultColor(w.input.color),
                   monthly_rent |-> w.input.monthlyRent,
                   monthly_utility_bills |-> w.input.monthlyUtilityBills,
                   monthly_other_expenses |-> w.input.monthlyOtherExpenses,
                   markup_percentage |-> w.input.markupPercentage]
     IN IF w.op = "saveEmployee" /\ ~StoreRefOk(db, w.input.storeId)
        THEN /\ UNCHANGED <<db, nextId>>
             /\ inflight' = [inflight EXCEPT !.writes[i].stage = "inserted",
                                             !.writes[i].ok = FALSE]
        ELSE /\ db' = IF w.op = "saveEmployee"
                      THEN [db EXCEPT !.employees = Append(@, employee)]
                      ELSE [db EXCEPT !.stores = Append(@, store)]
             /\ nextId' = nextId + 1
             /\ inflight' = [inflight EXCEPT
                               !.writes[i].stage = "inserted",
                               !.writes[i].data =
                                 IF w.op = "saveEmployee"
                                 THEN Some([id |-> employee.id, name |-> employee.name,
                                            salaryRate |-> employee.salary_rate,
                                            storeId |-> employee.store_id])
                                 ELSE Some(StoreOut(store))]
  /\ UNCHANGED <<mode, ls, cache, now, calls, last, prev, tz, faults, budget, ui>>

\* the promise of saveEmployee or saveStore settles: the facade's
\* cacheInvalidate calls when it resolved
CreateSettle(i) ==
  /\ i \in 1..Len(inflight.writes)
  /\ inflight.writes[i].op \in {"saveEmployee", "saveStore"}
  /\ inflight.writes[i].stage = "inserted"
  /\ LET w == inflight.writes[i]
     IN /\ cache' = IF ~w.ok THEN cache
                    ELSE IF w.op = "saveEmployee"
                    THEN cacheInvalidateAll(cache, <<(<<"employees">>)>>)
                    ELSE cacheInvalidateAll(cache, StoreWriteKeys)
        /\ SettleInFlight(w.op, IF w.op = "saveEmployee" THEN "employees" ELSE "stores",
                          "write", w.input, w.ok, w.data)
  /\ inflight' = [inflight EXCEPT !.writes = Without(@, i)]
  /\ UNCHANGED <<mode, db, ls, now, nextId, calls, tz, faults, budget, ui>>

\* SalesTracker's loadData(), the inventory half of its Promise.all: on the
\* fallback backend and on a cache hit the promise is already resolved and
\* setInventory runs before anything else can happen; on a miss the fetch leaves
loadData ==
  IF mode = "local"
  THEN /\ ui' = [ui EXCEPT !.inventory = getInventoryLocal(ls)]
       /\ UNCHANGED <<cache, inflight>>
  ELSE LET hit == cacheGet(cache, now, <<"inventory">>)
       IN /\ cache' = cacheGetEvict(cache, now, <<"inventory">>)
          /\ IF ~hit.null
             THEN /\ ui' = [ui EXCEPT !.inventory = hit.v]
                  /\ UNCHANGED inflight
             ELSE /\ inflight' = [inflight EXCEPT !.reads =
                                    Append(@, [op |-> "getInventory", fam |-> "inventory",
                                               arg |-> <<>>, key |-> <<"inventory">>,
                                               answered |-> FALSE, data |-> Null])]
                  /\ UNCHANGED ui

\* SalesTracker is mounted: useEffect(() => { loadData(); }, [])
TrackerMount ==
  /\ calls < budget
  /\ loadData
  /\ calls' = calls + 1
  /\ UNCHANGED <<mode, db, ls, now, nextId, last, prev, tz, faults, budget>>

\* the fetch of loadData is answered: cacheSet(key, data) in cachedRead, then
\* setInventory(inv)
TrackerLoaded(i) ==
  /\ i \in 1..Len(inflight.reads)
  /\ inflight.reads[i].answered
  /\ LET rd == inflight.reads[i]
     IN /\ cache' = cacheSet(cache, now, rd.key, rd.data)
        /\ ui' = [ui EXCEPT !.inventory = rd.data.v]
        /\ SettleInFlight(rd.op, rd.fam, "list", rd.arg, TRUE, rd.data)
  /\ inflight' = [inflight EXCEPT !.reads = Without(@, i)]
  /\ UNCHANGED <<mode, db, ls, now, nextId, calls, tz, faults, budget>>

\* handleSubmit of SalesTracker with formData {itemId, quantity}: the item is
\* looked up in the component's inventory, the quantity is compared with that
\* item's quantity, recordSale(sale) is awaited and loadData() is called
TrackerSubmit(itemId, quantity) ==
  LET idx == FindIndex(ui.inventory, LAMBDA i : i.id = itemId)
      item == ui.inventory[idx]
      sale == [itemId |-> itemId, itemName |-> item.name, quantity |-> quantity,
               price |-> item.price, total |-> item.price * quantity,
               customerName |-> "", date |-> 1]
      r == IF mode = "remote" THEN recordSaleSupabase(db, sale, 0)
           ELSE recordSaleLocal(ls, sale)
  IN /\ calls < budget
     /\ idx > 0
     /\ quantity <= item.quantity
     /\ nextId' = r.nid
     /\ calls' = calls + 1
     /\ prev' = last
     /\ last' = [op |-> "recordSale", fam |-> "sales", kind |-> "write", arg |-> sale,
                 ok |-> r.ok, val |-> r.val, hit |-> FALSE, err |-> r.err]
     /\ IF mode = "local"
        THEN /\ ls' = r.ls
             /\ ui' = [ui EXCEPT !.inventory = getInventoryLocal(r.ls)]
             /\ UNCHANGED <<db, cache, inflight>>
        ELSE /\ db' = r.db
             /\ IF r.ok
                THEN /\ cache' = cacheInvalidateAll(cache, <<(<<"sales">>), (<<"inventory">>)>>)
                     /\ inflight' = [inflight EXCEPT !.reads =
                                       Append(@, [op |-> "getInventory",
                                                  fam |-> "inventory", arg |-> <<>>,
                                                  key |-> <<"inventory">>,
                                                  answered |-> FALSE, data |-> Null])]
                ELSE UNCHANGED <<cache, inflight>>
             /\ UNCHANGED <<ls, ui>>
     /\ UNCHANGED <<mode, now, tz, faults, budget>>

\* Analytics: the date range becomes <<dateFrom, dateTo>> (on mount, or by the
\* date inputs) and the effect on [dateFrom, dateTo] calls loadData(); of its
\* Promise.all the store sales are followed.  On the fallback backend and on
\* a cache hit setSales runs before anything else can happen; on a miss the
\* fetch leaves
AnalyticsRange(dateFrom, dateTo) ==
  LET key == <<"storeSales:", dateFrom, dateTo>>
      hit == cacheGet(cache, now, key)
      shown == [ui EXCEPT !.analytics.range = Some(<<dateFrom, dateTo>>)]
  IN /\ calls < budget
     /\ ui.analytics.range # Some(<<dateFrom, dateTo>>)
     /\ IF mode = "local"
        THEN /\ ui' = [shown EXCEPT !.analytics.sales =
                         getStoreSalesForWeekLocal(ls, dateFrom, dateTo)]
             /\ UNCHANGED <<cache, inflight>>
        ELSE /\ cache' = cacheGetEvict(cache, now, key)
             /\ IF ~hit.null
                THEN /\ ui' = [shown EXCEPT !.analytics.sales = hit.v]
                     /\ UNCHANGED inflight
                ELSE /\ ui' = shown
                     /\ inflight' = [inflight EXCEPT !.reads =
                                       Append(@, [op |-> "getStoreSalesForWeek",
                                                  fam |-> "storeSales",
                                                  arg |-> <<dateFrom, dateTo>>,
                                                  key |-> key, answered |-> FALSE,
                                                  data |-> Null])]
     /\ calls' = calls + 1
     /\ UNCHANGED <<mode, db, ls, now, nextId, last, prev, tz, faults, budget>>

\* a load of Analytics is answered: cacheSet(key, data) in cachedRead, then
\* setSales(salesData), whatever the range is by now
AnalyticsLoaded(i) ==
  /\ i \in 1..Len(inflight.reads)
  /\ inflight.reads[i].answered
  /\ LET rd == inflight.reads[i]
     IN /\ cache' = cacheSet(cache, now, rd.key, rd.data)
        /\ ui' = [ui EXCEPT !.analytics.sales = rd.data.v]
        /\ SettleInFlight(rd.op, rd.fam, "list", rd.arg, TRUE, rd.data)
  /\ inflight' = [inflight EXCEPT !.reads = Without(@, i)]
  /\ UNCHANGED <<mode, db, ls, now, nextId, calls, tz, faults, budget>>

\* AuthProvider: canEdit = !supabase || !!user
canEdit == mode # "remote" \/ ui.user

\* onAuthStateChange((_event, s) => setUser(s?.user ?? null)): a user signs in
\* or out; without a configured backend signIn throws and the user stays null
AuthStateChange ==
  /\ mode = "remote"
  /\ ui' = [ui EXCEPT !.user = ~@]
  /\ UNCHANGED <<mode, db, ls, cache, now, nextId, calls, last, prev, tz, faults, budget,
                 inflight>>

\* clearAllData(): cache.clear(), then the nine deletes leave together
ClearBegin ==
  /\ calls < budget
  /\ mode = "remote"
  /\ inflight.clear = "idle"
  /\ cache' = <<>>
  /\ inflight' = [inflight EXCEPT !.clear = "sent"]
  /\ calls' = calls + 1
  /\ UNCHANGED <<mode, db, ls, now, nextId, last, prev, tz, faults, budget, ui>>

\* the backend runs the nine deletes
ClearServe ==
  /\ inflight.clear = "sent"
  /\ db' = clearAllDataSupabase(db, 0).db
  /\ inflight' = [inflight EXCEPT !.clear = "served"]
  /\ UNCHANGED <<mode, ls, cache, now, nextId, calls, last, prev, tz, faults, budget, ui>>

\* Promise.all(...).then(() => {}): the promise of clearAllData resolves
ClearEnd ==
  /\ inflight.clear = "served"
  /\ prev' = last
  /\ last' = [op |-> "clearAllData", fam |-> "all", kind |-> "write", arg |-> <<>>,
              ok |-> TRUE, val |-> Null, hit |-> FALSE, err |-> 0]
  /\ inflight' = [inflight EXCEPT !.clear = "done"]
  /\ UNCHANGED <<mode, db, ls, cache, now, nextId, calls, tz, faults, budget, ui>>

----------------------------------------------------------------------------
(* Analytics: components/Analytics.jsx 301-373.  Amounts of money are exact: *)
(* a quotient is kept as [num, den].                                         *)

RECURSIVE GCD(_, _)
GCD(a, b) == IF b = 0 THEN a ELSE GCD(b, a % b)

\* the quotient n / d (d > 0) in lowest terms
Quotient(n, d) == [num |-> n \div GCD(n, d), den |-> d \div GCD(n, d)]

\* r[f] of a JavaScript object: "undefined" when the object has no such key
Field(r, f) == IF f \in DOMAIN r THEN r[f] ELSE "undefined"

\* one entry of breakEvenByStoreId.  With R = rent + utility + other and S the
\* salaries counted: totalDailyExpenses = R / 30 + S and marginDecimal =
\* (markup / 100) / (1 + markup / 100), positive iff markup > 0
breakEven(store, employees) ==
  LET rent == store.monthlyRent
      utility == store.monthlyUtilityBills
      other == store.monthlyOtherExpenses
      mainEmployeeDaily ==
        SumSeq(MapSeq(SelectSeq(employees,
                                LAMBDA e : e.storeId = store.id
                                           /\ Field(e, "employeeType") = "main"),
                      LAMBDA e : e.salaryRate))
      markup == store.markupPercentage
  IN IF markup > 0
     THEN Quotient((rent + utility + other + 30 * mainEmployeeDaily) * (100 + markup),
                   30 * markup)
     ELSE Quotient(0, 1)

breakEvenByStoreId(stores, employees) ==
  [id \in {stores[i].id : i \in 1..Len(stores)} |->
     breakEven(stores[CHOOSE i \in 1..Len(stores) :
                        stores[i].id = id /\ \A j \in (i + 1)..Len(stores) : stores[j].id # id],
               employees)]

\* what the component holds once loadData has settled
AnalyticsState(stores, sales, employees, attendance) ==
  [stores |-> stores, sales |-> sales, employees |-> employees, attendance |-> attendance,
   breakEvenByStoreId |-> breakEvenByStoreId(stores, employees)]

\* loadData: four facade reads, then the memoised break-even
AnalyticsLoadData(dateFrom, dateTo) ==
  /\ calls < budget
  /\ IF mode = "remote"
     THEN LET r1 == cachedRead(cache, now, <<"stores">>, getStoresSupabase(db, 0))
              r2 == cachedRead(r1.cache, now, <<"storeSales:", dateFrom, dateTo>>,
                               getStoreSalesForWeekSupabase(db, dateFrom, dateTo, 0))
              r3 == cachedRead(r2.cache, now, <<"employees">>, getEmployeesSupabase(db, 0))
              r4 == cachedRead(r3.cache, now, <<"attendance:", dateFrom, dateTo>>,
                               getAttendanceForWeekSupabase(db, dateFrom, dateTo, 0))
          IN /\ cache' = r4.cache
             /\ Settle("loadData", "analytics", "view", <<dateFrom, dateTo>>,
                       [ok |-> TRUE, err |-> 0,
                        val |-> Some(AnalyticsState(r1.val.v, r2.val.v, r3.val.v, r4.val.v))],
                       FALSE)
     ELSE /\ cache' = cache
          /\ Settle("loadData", "analytics", "view", <<dateFrom, dateTo>>,
                    [ok |-> TRUE, err |-> 0,
                     val |-> Some(AnalyticsState(
                                    getStoresLocal(ls),
                                    getStoreSalesForWeekLocal(ls, dateFrom, dateTo),
                                    getEmployeesLocal(ls),
                                    getAttendanceForWeekLocal(ls, dateFrom, dateTo)))],
                    FALSE)
  /\ UNCHANGED <<db, ls, nextId>>

----------------------------------------------------------------------------
(* Initial states.  The remote tables and localStorage outlive the page: a   *)
(* session starts on empty data, or on data an earlier session left: one     *)
(* employee (id 1), one store (id 2) with its expenses of one month, and     *)
(* one inventory item (id 3).                                                *)

UTC == [std |-> 0, dst |-> 0, from |-> 0, to |-> 0]

\* Asia/Manila: UTC+8 all year
Manila == [std |-> 8, dst |-> 8, from |-> 0, to |-> 0]

\* America/New_York: daylight time from 2024-03-10 07:00Z to 2024-11-03 06:00Z
NewYork == [std |-> -5, dst |-> -4, from |-> 70 * HoursPerDay + 7,
            to |-> 308 * HoursPerDay + 6]

\* Australia/Sydney: daylight time from 2024-10-05 16:00Z to 2025-04-05 16:00Z
Sydney == [std |-> 10, dst |-> 11, from |-> 279 * HoursPerDay + 16,
           to |-> 461 * HoursPerDay + 16]

Zones == {UTC, Manila, NewYork, Sydney}

SeedDb ==
  [EmptyDb EXCEPT
     !.employees = <<[id |-> 1, name |-> "A", salary_rate |-> 500, store_id |-> NoId,
                      display_order |-> 0]>>,
     !.stores = <<[id |-> 2, name |-> "A", color |-> "#333333", monthly_rent |-> 3000,
                   monthly_utility_bills |-> 600, monthly_other_expenses |-> 0,
                   markup_percentage |-> 50, display_order |-> 0]>>,
     !.inventory = <<[id |-> 3, name |-> "A", price |-> 5, quantity |-> 2,
                      description |-> "d"]>>,
     !.store_monthly_expenses =
        <<[store_id |-> 2, year_month |-> 202401, monthlyRent |-> 3000,
           monthlyUtilityBills |-> 600, monthlyEmployeeSalaries |-> 500,
           monthlyOtherExpenses |-> 0]>>]

SeedStorage ==
  [EmptyStorage EXCEPT
     !.employees = <<[id |-> 1, name |-> "A", salaryRate |-> 500, storeId |-> NoId]>>,
     !.employeeOrder = <<1>>,
     !.stores = <<[id |-> 2, name |-> "A", color |-> "#333333", monthlyRent |-> 3000,
                   monthlyUtilityBills |-> 600, monthlyOtherExpenses |-> 0,
                   markupPercentage |-> 50]>>,
     !.storeOrder = <<2>>,
     !.inventory = <<[id |-> 3, name |-> "A", price |-> 5, quantity |-> 2,
                      description |-> "d"]>>,
     !.storeMonthlyExpenses =
        <<[storeId |-> 2, yearMonth |-> 202401, monthlyRent |-> 3000,
           monthlyUtilityBills |-> 600, monthlyEmployeeSalaries |-> 500,
           monthlyOtherExpenses |-> 0]>>]

NoCall == [op |-> "none", fam |-> "none", kind |-> "none", arg |-> <<>>, ok |-> TRUE,
           val |-> Null, hit |-> FALSE, err |-> 0]

\* nothing is in flight when the page has loaded
NoneInFlight == [reads |-> <<>>, clear |-> "idle", writes |-> <<>>]

\* the components before their first load: useState([]) everywhere
NoUi == [attendance |-> <<>>, inventory |-> <<>>,
         analytics |-> [range |-> Null, sales |-> <<>>], user |-> FALSE]

InitWith(modes, seeded, zones, cap, n) ==
  /\ mode \in modes
  /\ faults = cap
  /\ budget = n
  /\ \E sd \in seeded :
       /\ db = IF sd /\ mode = "remote" THEN SeedDb ELSE EmptyDb
       /\ ls = IF sd /\ mode = "local" THEN SeedStorage ELSE EmptyStorage
       /\ nextId = IF sd THEN 4 ELSE 1
  /\ cache = <<>>
  /\ now = 0
  /\ calls = 0
  /\ last = NoCall
  /\ prev = NoCall
  /\ inflight = NoneInFlight
  /\ ui = NoUi
  /\ tz \in zones

----------------------------------------------------------------------------
(* Inputs of the calls *)

\* the requests of a call that may return an error: the first `faults` of its
\* n, none on the fallback
Fails(n) == IF mode = "remote" THEN 0..(IF n <= faults THEN n ELSE faults) ELSE {0}

EmployeeIds == {1}
StoreIds == {2}
ItemIds == {3}

ItemInputs ==
  {[id |-> NoId, name |-> "A", price |-> 5, quantity |-> 2, description |-> "d"],
   [id |-> NoId, name |-> "B", price |-> 7, quantity |-> 1, description |-> ""],
   [id |-> 3, name |-> "B", price |-> 7, quantity |-> 4, description |-> ""]}

\* what SalesTracker's handleSubmit builds
SaleInputs ==
  {[itemId |-> i, itemName |-> "A", quantity |-> q, price |-> 5, total |-> 5 * q,
    customerName |-> "", date |-> 1] : i \in ItemIds, q \in {1}}

EmployeeInputs ==
  {[id |-> NoId, name |-> "B", salaryRate |-> 500, storeId |-> 2, employeeType |-> "main"],
   [id |-> NoId, name |-> "A", salaryRate |-> 300, storeId |-> NoId,
    employeeType |-> "reliever"],
   [id |-> 1, name |-> "A", salaryRate |-> 500, storeId |-> 2, employeeType |-> "main"]}

OrderInputs == {<<1>>, <<4, 1>>}

StoreInputs ==
  {[id |-> NoId, name |-> "B", color |-> "undefined", monthlyRent |-> 3000,
    monthlyUtilityBills |-> 600, monthlyOtherExpenses |-> 0, markupPercentage |-> 0,
    linkedEmployeeIds |-> Some({1})],
   [id |-> 2, name |-> "A", color |-> "#333333", monthlyRent |-> 3000,
    monthlyUtilityBills |-> 600, monthlyOtherExpenses |-> 0, markupPercentage |-> 50,
    linkedEmployeeIds |-> Some({1})],
   [id |-> 2, name |-> "A", color |-> "#333333", monthlyRent |-> 3000,
    monthlyUtilityBills |-> 600, monthlyOtherExpenses |-> 0, markupPercentage |-> 50,
    linkedEmployeeIds |-> Some({})]}

Dates == {1, 2}
DateRanges == {<<1, 1>>, <<1, 2>>}
Weeks == {0, 7}
WeekRanges == {<<7, 13>>, <<8, 9>>}
Amounts == {10, 20}
YearMonths == {202401, 202402}

ExpenseInputs ==
  {[monthlyRent |-> 3500, monthlyUtilityBills |-> 600, monthlyEmployeeSalaries |-> 500,
    monthlyOtherExpenses |-> 0]}

----------------------------------------------------------------------------
(* The calls of the facade, grouped *)

Reads ==
  \/ \E f \in Fails(1) : GetInventory(f)
  \/ \E f \in Fails(1) : GetSales(f)
  \/ \E f \in Fails(1) : GetEmployees(f)
  \/ \E r \in DateRanges, f \in Fails(1) : GetAttendanceForWeek(r[1], r[2], f)
  \/ \E w \in Weeks, f \in Fails(1) : GetWeeklyPaymentsForWeek(w, f)
  \/ \E w \in Weeks, f \in Fails(1) : GetDeductionsForWeek(w, f)
  \/ \E r \in WeekRanges, f \in Fails(1) : GetDeductionsForDateRange(r[1], r[2], f)
  \/ \E f \in Fails(1) : GetStores(f)
  \/ \E r \in DateRanges, f \in Fails(1) : GetStoreSalesForWeek(r[1], r[2], f)
  \/ \E x \in StoreIds, m \in YearMonths, f \in Fails(1) :
       GetStoreMonthlyExpenses(x, m, f)

Writes ==
  \/ \E i \in ItemInputs, f \in Fails(1) : SaveInventoryItem(i, f)
  \/ \E i \in ItemIds, f \in Fails(1) : DeleteInventoryItem(i, f)
  \/ \E x \in SaleInputs, f \in Fails(3) : RecordSale(x, f)
  \/ \E e \in EmployeeInputs, f \in Fails(2) : SaveEmployee(e, f)
  \/ \E e \in EmployeeIds, f \in Fails(1) : DeleteEmployee(e, f)
  \/ \E o \in OrderInputs, f \in Fails(2) : UpdateEmployeeOrder(o, f)
  \/ \E e \in EmployeeIds, d \in Dates, f \in Fails(2) : ToggleAttendance(e, d, f)
  \/ \E e \in EmployeeIds, w \in Weeks, p \in BOOLEAN, f \in Fails(1) :
       SetWeeklyPaid(e, w, p, f)
  \/ \E e \in EmployeeIds, w \in Weeks, a \in Amounts, f \in Fails(1) :
       SaveDeduction(e, w, a, f)
  \/ \E x \in StoreInputs, f \in Fails(3) : SaveStore(x, f)
  \/ \E x \in StoreIds, f \in Fails(1) : DeleteStore(x, f)
  \/ \E x \in StoreIds, d \in Dates, a \in Amounts, f \in Fails(1) :
       SaveStoreDailySale(x, d, a, f)
  \/ \E x \in StoreIds, m \in YearMonths, e \in ExpenseInputs, f \in Fails(1) :
       SaveStoreMonthlyExpenses(x, m, e, f)
  \/ \E f \in Fails(9) : ClearAllData(f)

----------------------------------------------------------------------------
(* Spec: the remote backend behind its read cache, every entity family *)

Init == InitWith({"remote"}, BOOLEAN, {UTC}, 0, MaxCalls)

Next == Tick \/ Reads \/ Writes

Spec == Init /\ [][Next]_vars

----------------------------------------------------------------------------
(* SpecWrites: the writes of the remote backend, any request of a call may   *)
(* return an error                                                           *)

InitWrites == InitWith({"remote"}, BOOLEAN, {UTC}, MaxFaults, MaxFaultyCalls)

NextWrites == Writes

SpecWrites == InitWrites /\ [][NextWrites]_vars

----------------------------------------------------------------------------
(* SpecFallback: the localStorage backend from empty storage, every entity   *)
(* family                                                                    *)

InitFallback == InitWith({"local"}, {FALSE}, {UTC}, 0, MaxLocalCalls)

NextFallback == Reads \/ Writes

SpecFallback == InitFallback /\ [][NextFallback]_vars

----------------------------------------------------------------------------
(* SpecAttendance: attendance on either backend *)

InitAttendance == InitWith({"remote", "local"}, BOOLEAN, {UTC}, 2, MaxToggleCalls)

NextAttendance ==
  \/ Tick
  \/ \E e \in EmployeeIds, d \in Dates, f \in Fails(2) : ToggleAttendance(e, d, f)
  \/ \E r \in DateRanges, f \in Fails(1) : GetAttendanceForWeek(r[1], r[2], f)

SpecAttendance == InitAttendance /\ [][NextAttendance]_vars

----------------------------------------------------------------------------
(* SpecInventory: the inventory on either backend *)

InitInventory == InitWith({"remote", "local"}, BOOLEAN, {UTC}, 1, MaxInventoryCalls)

NextInventory ==
  \/ Tick
  \/ \E i \in ItemInputs, f \in Fails(1) : SaveInventoryItem(i, f)
  \/ \E i \in ItemIds, f \in Fails(1) : DeleteInventoryItem(i, f)
  \/ \E f \in Fails(1) : GetInventory(f)

SpecInventory == InitInventory /\ [][NextInventory]_vars

----------------------------------------------------------------------------
(* SpecDeductions: weekly deductions on either backend, in four time zones,  *)
(* around the days the clocks change                                         *)

\* 66 = 2024-03-06, 70 = Sunday 2024-03-10, 303 = 2024-10-29, 304 = 2024-10-30,
\* 455 = Sunday 2025-03-30, 462 = Sunday 2025-04-06
DeductionWeeks == {66, 70, 303, 304, 455, 462}
DeductionSundays == {70, 462}

\* 2024-03-12, Saturday 2024-03-16, 2024-11-05, 2025-04-06 to 2025-04-08
DeductionRanges == {<<72, 72>>, <<76, 76>>, <<310, 310>>, <<462, 464>>}

InitDeductions == InitWith({"remote", "local"}, {TRUE}, Zones, 1, MaxDeductionCalls)

NextDeductions ==
  \/ \E e \in EmployeeIds, w \in DeductionWeeks, a \in Amounts, f \in Fails(1) :
       SaveDeduction(e, w, a, f)
  \/ \E w \in DeductionSundays, f \in Fails(1) : GetDeductionsForWeek(w, f)
  \/ \E r \in DeductionRanges, f \in Fails(1) : GetDeductionsForDateRange(r[1], r[2], f)

SpecDeductions == InitDeductions /\ [][NextDeductions]_vars

----------------------------------------------------------------------------
(* SpecAnalytics: stores and employees on either backend, and the Analytics  *)
(* tab loading them                                                          *)

InitAnalytics == InitWith({"remote", "local"}, BOOLEAN, {UTC}, 0, MaxAnalyticsCalls)

NextAnalytics ==
  \/ \E e \in EmployeeInputs, f \in Fails(2) : SaveEmployee(e, f)
  \/ \E x \in StoreInputs, f \in Fails(3) : SaveStore(x, f)
  \/ \E f \in Fails(1) : GetEmployees(f)
  \/ \E r \in DateRanges : AnalyticsLoadData(r[1], r[2])

SpecAnalytics == InitAnalytics /\ [][NextAnalytics]_vars

----------------------------------------------------------------------------
(* Cache freshness after a write (remote backend) *)

\* what the backend function behind the list call c returns on the tables as
\* they are now
Fresh(c) ==
  CASE c.op = "getInventory" -> getInventorySupabase(db, 0).val
    [] c.op = "getSales" -> getSalesSupabase(db, 0).val
    [] c.op = "getEmployees" -> getEmployeesSupabase(db, 0).val
    [] c.op = "getAttendanceForWeek" ->
         getAttendanceForWeekSupabase(db, c.arg[1], c.arg[2], 0).val
    [] c.op = "getWeeklyPaymentsForWeek" ->
         getWeeklyPaymentsForWeekSupabase(db, c.arg[1], 0).val
    [] c.op = "getDeductionsForWeek" -> getDeductionsForWeekSupabase(db, c.arg[1], 0).val
    [] c.op = "getDeductionsForDateRange" ->
         getDeductionsForDateRangeSupabase(db, tz, c.arg[1], c.arg[2], 0).val
    [] c.op = "getStores" -> getStoresSupabase(db, 0).val
    [] c.op = "getStoreSalesForWeek" ->
         getStoreSalesForWeekSupabase(db, c.arg[1], c.arg[2], 0).val
    [] c.op = "getStoreMonthlyExpenses" ->
         getStoreMonthlyExpensesSupabase(db, c.arg[1], c.arg[2], 0).val
    [] OTHER -> Null

\* the last two calls: a successful save or delete on a family, then a
\* successful list call of that family
ListAfterWrite ==
  /\ mode = "remote"
  /\ prev.kind = "write" /\ prev.ok /\ prev.fam # "all"
  /\ last.kind = "list" /\ last.ok
  /\ last.fam = prev.fam

\* the list call asks for the expenses of another (store, month) than the one
\* the write saved
OtherMonth ==
  /\ prev.op = "saveStoreMonthlyExpenses"
  /\ last.op = "getStoreMonthlyExpenses"
  /\ <<last.arg[1], last.arg[2]>> # <<prev.arg[1], prev.arg[2]>>

\* C1 (as the specification states it): after a successful save or delete on
\* a family, the next list call of that family is never answered from an entry
\* cached before the write.
C1_NeverFromCache == ListAfterWrite => ~last.hit

\* C1 (amended): after a successful save or delete on a family, the next list
\* call of that family returns what the backend holds after the write; it is
\* answered by a new fetch, except that getStoreMonthlyExpenses for another
\* (store, month) than the one saved may be answered from its cached entry.
C1_ReflectsWrite ==
  ListAfterWrite => /\ last.val = Fresh(last)
                    /\ last.hit => OtherMonth

\* an attendance toggle followed, inside the cache window, by a list call that
\* returns the toggled row from a new fetch
C1_Witness ==
  /\ ListAfterWrite
  /\ prev.op = "toggleAttendance"
  /\ now <= CACHE_TTL_MS
  /\ ~last.hit
  /\ Len(last.val.v) > 0

----------------------------------------------------------------------------
(* Attendance toggles (either backend) *)

\* the attendance row of the pair exists in the backend in use, d and s being
\* the remote tables and the local storage
PresentIn(d, s, employeeId, dateStr) ==
  IF mode = "remote"
  THEN \E i \in 1..Len(d.attendance) :
         d.attendance[i].employee_id = employeeId /\ d.attendance[i].date = dateStr
  ELSE \E i \in 1..Len(s.attendance) :
         s.attendance[i].employeeId = employeeId /\ s.attendance[i].date = dateStr

Present(employeeId, dateStr) == PresentIn(db, ls, employeeId, dateStr)

\* this step is a toggleAttendance call that resolves
ToggleResolves ==
  /\ calls' = calls + 1
  /\ last'.op = "toggleAttendance"
  /\ last'.ok

\* C2: a toggleAttendance call that resolves inverts the existence of the
\* pair's row and returns true exactly when the row exists afterwards; so the
\* second of two such calls in a row for one pair leaves the row's existence
\* as it was before the first (the negation of what the first returned).
C2_ToggleTwice ==
  [][ToggleResolves =>
       LET e == last'.arg[1]
           d == last'.arg[2]
           after == PresentIn(db', ls', e, d)
       IN /\ after = ~PresentIn(db, ls, e, d)
          /\ last'.val = Some(after)
          /\ (last.op = "toggleAttendance" /\ last.ok /\ last.arg = last'.arg)
               => after = ~last.val.v]_vars

\* two resolved toggles in a row for one pair, the row existing before the first
C2_Witness ==
  /\ prev.op = "toggleAttendance" /\ prev.ok /\ prev.val = Some(FALSE)
  /\ last.op = "toggleAttendance" /\ last.ok /\ last.val = Some(TRUE)
  /\ last.arg = prev.arg
  /\ Present(last.arg[1], last.arg[2])

----------------------------------------------------------------------------
(* Natural keys on the fallback backend *)

\* no two elements of the sequence rows have the same Key
Unique(rows, Key(_)) ==
  \A i, j \in 1..Len(rows) : Key(rows[i]) = Key(rows[j]) => i = j

\* C3: on the fallback backend no two rows of attendance, weekly payments,
\* weekly deductions or store daily sales have the same natural key, and
\* getStoreSalesForWeek never returns two rows for one (storeId, date).
C3_NaturalKeys ==
  mode = "local" =>
    /\ Unique(ls.attendance, LAMBDA a : <<a.employeeId, a.date>>)
    /\ Unique(ls.weeklyPayments, LAMBDA w : <<w.employeeId, w.weekStart>>)
    /\ Unique(ls.weeklyDeductions, LAMBDA x : <<x.employeeId, x.weekStart>>)
    /\ Unique(ls.storeDailySales, LAMBDA x : <<x.storeId, x.date>>)
    /\ (last.op = "getStoreSalesForWeek"
          => Unique(last.val.v, LAMBDA x : <<x.storeId, x.date>>))

\* a second saveStoreDailySale for one (storeId, date) has replaced the first,
\* and the list call returns the one row with the second amount
C3_Witness ==
  /\ mode = "local"
  /\ prev.op = "saveStoreDailySale"
  /\ last.op = "getStoreSalesForWeek"
  /\ Len(ls.storeDailySales) = 1
  /\ last.val.v = <<[storeId |-> prev.arg[1], date |-> prev.arg[2], amount |-> prev.arg[3]]>>
  /\ prev.arg[3] = 20
  /\ calls = 3

----------------------------------------------------------------------------
(* Inventory round trip (either backend) *)

\* C4: saveInventoryItem with an item that carries no id, then getInventory:
\* the list holds an entry with the submitted name, price, quantity and
\* description and a newly assigned, non-empty id.
C4_RoundTrip ==
  (/\ prev.op = "saveInventoryItem" /\ prev.ok /\ prev.arg.id = NoId
   /\ last.op = "getInventory" /\ last.ok)
  => \E i \in 1..Len(last.val.v) :
       /\ last.val.v[i].name = prev.arg.name
       /\ last.val.v[i].price = prev.arg.price
       /\ last.val.v[i].quantity = prev.arg.quantity
       /\ last.val.v[i].description = prev.arg.description
       /\ last.val.v[i].id # NoId

----------------------------------------------------------------------------
(* Deleting an employee on the fallback backend *)

\* C5: on the fallback backend, after deleteEmployee(id) for an employee that
\* has attendance rows, getAttendanceForWeek returns no row of that employee,
\* whatever the range.
C5_DeleteCascades ==
  [][(/\ mode = "local"
      /\ calls' = calls + 1
      /\ last'.op = "deleteEmployee"
      /\ HasId(ls.employees, last'.arg)
      /\ \E i \in 1..Len(ls.attendance) : ls.attendance[i].employeeId = last'.arg)
     => \A r \in DateRanges :
          \A a \in Range(getAttendanceForWeekLocal(ls', r[1], r[2])) :
            a.employeeId # last'.arg]_vars

----------------------------------------------------------------------------
(* Weekly deductions over a date range (either backend) *)

\* the deduction rows of the backend in use
Deductions ==
  IF mode = "remote"
  THEN MapSeq(db.weekly_deductions,
              LAMBDA r : [employeeId |-> r.employee_id, weekStart |-> r.week_start,
                          amount |-> r.amount])
  ELSE MapSeq(ls.weeklyDeductions,
              LAMBDA r : [employeeId |-> r.employeeId, weekStart |-> r.weekStart,
                          amount |-> r.amount])

\* the amount a result of getDeductionsFor* gives for the employee (0: not listed)
Reported(result, e) ==
  SumSeq(MapSeq(SelectSeq(result, LAMBDA x : x.employeeId = e), LAMBDA x : x.amount))

Listed(result) == {result[i].employeeId : i \in 1..Len(result)}

\* the amount recorded for the employee against the week
AmountAt(e, weekStart) ==
  SumSeq(MapSeq(SelectSeq(Deductions,
                          LAMBDA r : r.employeeId = e /\ r.weekStart = weekStart),
                LAMBDA r : r.amount))

\* what getDeductionsForWeek returns now
WeekNow(weekStartStr) ==
  IF mode = "remote"
  THEN getDeductionsForWeekSupabase(db, weekStartStr, 0).val.v
  ELSE getDeductionsForWeekLocal(ls, weekStartStr)

\* C6: getDeductionsForDateRange(start, end) counts the deduction whose
\* weekStart is start - 6 and does not count the one whose weekStart is
\* start - 7: for an employee whose deductions are all against these two days
\* it reports the amount recorded against start - 6.
C6_SixDaysBack ==
  (last.op = "getDeductionsForDateRange" /\ last.ok)
  => LET start == last.arg[1]
     IN \A e \in EmployeeIds :
          (\A r \in Range(Deductions) :
             r.employeeId = e => r.weekStart \in {start - 6, start - 7})
          => Reported(last.val.v, e) = AmountAt(e, start - 6)

\* C7: for a range inside one Sunday-started week W, with deductions recorded
\* only against Sundays, getDeductionsForDateRange gives every employee the
\* amount getDeductionsForWeek(W) gives and lists no employee that it does not.
C7_RangeInsideWeek ==
  (/\ last.op = "getDeductionsForDateRange" /\ last.ok
   /\ \A r \in Range(Deductions) : r.weekStart % 7 = 0
   /\ last.arg[1] <= last.arg[2]
   /\ last.arg[2] <= last.arg[1] - (last.arg[1] % 7) + 6)
  => LET W == last.arg[1] - (last.arg[1] % 7)
     IN /\ \A e \in EmployeeIds : Reported(last.val.v, e) = Reported(WeekNow(W), e)
        /\ Listed(last.val.v) \subseteq Listed(WeekNow(W))

----------------------------------------------------------------------------
(* Break-even in Analytics (either backend) *)

\* C8: with one employee linked to a store and classified "main", the
\* break-even Analytics holds for the store is ((rent + utilities + other) / 30
\* + salaryRate) / (markup / (100 + markup)) when markup > 0 (1860 for 3000,
\* 600, 0, 50 and 500), and 0 when markup = 0.
C8_BreakEven ==
  (/\ prev.op = "saveEmployee" /\ prev.ok
   /\ prev.arg.employeeType = "main"
   /\ last.op = "loadData")
  => \A i \in 1..Len(last.val.v.stores) :
       LET store == last.val.v.stores[i]
           linked == SelectSeq(last.val.v.employees, LAMBDA e : e.storeId = store.id)
           be == last.val.v.breakEvenByStoreId[store.id]
           R == store.monthlyRent + store.monthlyUtilityBills + store.monthlyOtherExpenses
           m == store.markupPercentage
       IN (Len(linked) = 1 /\ linked[1].id = prev.val.v.id)
          => /\ m > 0 => be = Quotient((R + 30 * prev.arg.salaryRate) * (100 + m), 30 * m)
             /\ (R = 3600 /\ m = 50 /\ prev.arg.salaryRate = 500) => be = Quotient(1860, 1)
             /\ m = 0 => be = Quotient(0, 1)

----------------------------------------------------------------------------
(* Errors of the remote backend *)

\* C9: a facade write on the remote backend one of whose requests returned an
\* error rejects.
C9_ErrorsReject ==
  (mode = "remote" /\ last.kind = "write" /\ last.err # 0) => ~last.ok

\* this step is a recordSale whose sale insert succeeds and whose inventory
\* step (the select, or the update) returns an error
RecordSaleFailsLate ==
  /\ calls' = calls + 1
  /\ last'.op = "recordSale"
  /\ last'.err \in {2, 3}

\* C10: when recordSale's insert succeeds and its inventory step fails, the
\* call leaves the sale row recorded and every quantity of the inventory as it
\* was.
C10_PartialSale ==
  [][RecordSaleFailsLate =>
       /\ db'.inventory = db.inventory
       /\ Len(db'.sales) = Len(db.sales) + 1
       /\ SubSeq(db'.sales, 1, Len(db.sales)) = db.sales
       /\ LET row == db'.sales[Len(db'.sales)]
          IN /\ row.item_id = last'.arg.itemId
             /\ row.quantity = last'.arg.quantity]_vars

\* a recordSale whose update of the inventory returned an error: the sale is
\* in the table and the item still has its two pieces
C10_Witness ==
  /\ last.op = "recordSale" /\ last.err = 3
  /\ \E i \in 1..Len(db.sales) : db.sales[i].item_id = last.arg.itemId
  /\ \E i \in 1..Len(db.inventory) :
       db.inventory[i].id = last.arg.itemId /\ db.inventory[i].quantity = 2

----------------------------------------------------------------------------
(* SpecClear: clearAllData on the remote backend while list calls are on    *)
(* their way, followed by awaited list calls *)

MaxClearCalls == 3

InitClear == InitWith({"remote"}, {TRUE}, {UTC}, 0, MaxClearCalls)

IssueReads ==
  \/ IssueRead("getInventory", "inventory", <<>>, <<"inventory">>)
  \/ IssueRead("getSales", "sales", <<>>, <<"sales">>)
  \/ IssueRead("getEmployees", "employees", <<>>, <<"employees">>)
  \/ IssueRead("getStores", "stores", <<>>, <<"stores">>)

AwaitedLists ==
  \/ GetInventory(0)
  \/ GetSales(0)
  \/ GetEmployees(0)
  \/ GetStores(0)

NextClear ==
  \/ IssueReads
  \/ \E i \in 1..MaxClearCalls : ServeRead(i)
  \/ \E i \in 1..MaxClearCalls : SettleRead(i)
  \/ ClearBegin
  \/ ClearServe
  \/ ClearEnd
  \/ AwaitedLists

SpecClear == InitClear /\ [][NextClear]_vars

----------------------------------------------------------------------------
(* C11 *)

\* the step is a list call issued and settled after clearAllData has resolved
ListAfterClear ==
  /\ inflight.clear = "done"
  /\ inflight' = inflight
  /\ calls' = calls + 1
  /\ last'.kind = "list"
  /\ last'.ok

\* C11: in remote mode, a list call made after the promise of clearAllData
\* has resolved returns no row at all (nothing is written after the clear in
\* SpecClear, so every row is one that existed before it), whatever list
\* calls were in flight while clearAllData ran.
C11_NothingSurvivesClear == [][ListAfterClear => last'.val = Some(<<>>)]_vars

----------------------------------------------------------------------------
(* C12 *)

\* the cache key the facade builds for the list call c (database.js 771-926)
KeyOf(c) ==
  CASE c.op = "getInventory" -> <<"inventory">>
    [] c.op = "getSales" -> <<"sales">>
    [] c.op = "getEmployees" -> <<"employees">>
    [] c.op = "getStores" -> <<"stores">>
    [] c.op = "getAttendanceForWeek" -> <<"attendance:", c.arg[1], c.arg[2]>>
    [] c.op = "getWeeklyPaymentsForWeek" -> <<"weeklyPayments:", c.arg[1]>>
    [] c.op = "getDeductionsForWeek" -> <<"deductions:", c.arg[1]>>
    [] c.op = "getDeductionsForDateRange" -> <<"deductionsRange:", c.arg[1], c.arg[2]>>
    [] c.op = "getStoreSalesForWeek" -> <<"storeSales:", c.arg[1], c.arg[2]>>
    [] c.op = "getStoreMonthlyExpenses" ->
         <<"storeMonthlyExpenses:", c.arg[1], ":", c.arg[2]>>

\* an earlier cachedRead of the key of c stored its result, nothing has
\* invalidated it since, and it is at most 2 minutes old
StoredFor(c) ==
  /\ mode = "remote"
  /\ KeyOf(c) \in DOMAIN cache
  /\ now - cache[KeyOf(c)].ts <= CACHE_TTL_MS

\* the step is an awaited list call
ListCall ==
  /\ calls' = calls + 1
  /\ inflight' = inflight
  /\ last'.kind = "list"

\* C12: a list call whose key has a stored result of at most 2 minutes, not
\* invalidated since, returns the stored value without invoking the fetcher,
\* whatever the stored value is (the null of getStoreMonthlyExpenses included).
C12_StoredValueIsServed ==
  [][ListCall /\ StoredFor(last')
       => last'.hit /\ last'.ok /\ last'.val = cache[KeyOf(last')].data]_vars

----------------------------------------------------------------------------
(* SpecCache: list calls on the remote backend separated by pauses of       *)
(* exactly the cache's time to live, or slightly more; a fetch may fail *)

MaxCacheCalls == 3

InitCache == InitWith({"remote"}, {TRUE}, {UTC}, 1, MaxCacheCalls)

Pauses ==
  \/ Elapse(CACHE_TTL_MS)
  \/ Elapse(CACHE_TTL_MS + ExtraMs)

CacheReads ==
  \/ \E f \in Fails(1) : GetInventory(f)
  \/ \E f \in Fails(1) : GetStores(f)
  \/ \E r \in DateRanges, f \in Fails(1) : GetAttendanceForWeek(r[1], r[2], f)
  \/ \E x \in StoreIds, m \in YearMonths, f \in Fails(1) :
       GetStoreMonthlyExpenses(x, m, f)

NextCache == Pauses \/ CacheReads

SpecCache == InitCache /\ [][NextCache]_vars

----------------------------------------------------------------------------
(* C13 *)

\* the entry under key k is as it was
Kept(k) == k \in DOMAIN cache' /\ cache'[k] = cache[k]

\* a lookup of key k finds an entry of at most 2 minutes: the entry is what the
\* lookup returns, and it stays (a stored null is returned as null, and the
\* fetch that follows stores its result again)
YoungIsReturned(k) ==
  now - cache[k].ts <= CACHE_TTL_MS =>
    IF cache[k].data.null
    THEN ~last'.hit
    ELSE last'.hit /\ last'.val = cache[k].data /\ Kept(k)

\* a lookup of key k finds an older entry: a miss, and the entry is gone (the
\* fetch that follows stores a new one when it succeeds)
OldIsRemoved(k) ==
  now - cache[k].ts > CACHE_TTL_MS =>
    /\ ~last'.hit
    /\ IF last'.ok THEN cache'[k] = [data |-> last'.val, ts |-> now]
                   ELSE k \notin DOMAIN cache'

\* C13: a lookup returns the stored entry exactly while now minus its
\* insertion time is at most 2 minutes; a lookup of an older entry is a miss
\* and removes the entry; a list call leaves the entries of all other keys,
\* and the passing of time leaves all entries, where they are.
C13_TimeToLive ==
  [][/\ ListCall =>
          /\ KeyOf(last') \in DOMAIN cache =>
                YoungIsReturned(KeyOf(last')) /\ OldIsRemoved(KeyOf(last'))
          /\ \A k \in DOMAIN cache \ {KeyOf(last')} : Kept(k)
     /\ now' # now => cache' = cache]_vars

\* a list call was answered from an entry exactly 2 minutes old, while
\* another entry, older than 2 minutes, is still in the Map
C13_Witness ==
  /\ last.kind = "list" /\ last.hit
  /\ KeyOf(last) \in DOMAIN cache
  /\ now - cache[KeyOf(last)].ts = CACHE_TTL_MS
  /\ \E k \in DOMAIN cache : now - cache[k].ts > CACHE_TTL_MS

----------------------------------------------------------------------------
(* C14 *)

\* the key prefixes of the family a write belongs to
FamilyPrefixes(op) ==
  CASE op = "toggleAttendance" -> {"attendance:"}
    [] op = "setWeeklyPaid" -> {"weeklyPayments:"}
    [] op = "saveDeduction" -> {"deductions:", "deductionsRange:"}
    [] op = "saveStoreDailySale" -> {"storeSales:"}
    [] OTHER -> {}

\* the step is a successful write of one of the four families on the remote
\* backend
PrefixWrite ==
  /\ mode = "remote"
  /\ calls' = calls + 1
  /\ last'.kind = "write" /\ last'.ok
  /\ FamilyPrefixes(last'.op) # {}

\* C14: in remote mode, after a successful toggleAttendance, setWeeklyPaid,
\* saveDeduction or saveStoreDailySale the cache holds no entry under the
\* family's prefixes, for any range or week, and every entry of every other
\* family is as it was (and none was added).
C14_PrefixInvalidation ==
  [][PrefixWrite =>
       /\ \A k \in DOMAIN cache' : k[1] \notin FamilyPrefixes(last'.op)
       /\ \A k \in DOMAIN cache : k[1] \notin FamilyPrefixes(last'.op) => Kept(k)
       /\ DOMAIN cache' \subseteq DOMAIN cache]_vars

\* saveDeduction succeeded right after a deductionsRange: entry and, before
\* it, an entry of another family were stored; the latter is still there
C14_Witness ==
  /\ mode = "remote"
  /\ last.op = "saveDeduction" /\ last.ok
  /\ prev.op = "getDeductionsForDateRange" /\ prev.ok /\ ~prev.hit
  /\ cache # <<>>

----------------------------------------------------------------------------
(* C15 *)

\* what the fallback function behind the list call c returns on the storage s
FreshLocal(c, s) ==
  CASE c.op = "getInventory" -> Some(getInventoryLocal(s))
    [] c.op = "getSales" -> Some(getSalesLocal(s))
    [] c.op = "getEmployees" -> Some(getEmployeesLocal(s))
    [] c.op = "getStores" -> Some(getStoresLocal(s))
    [] c.op = "getAttendanceForWeek" ->
         Some(getAttendanceForWeekLocal(s, c.arg[1], c.arg[2]))
    [] c.op = "getWeeklyPaymentsForWeek" -> Some(getWeeklyPaymentsForWeekLocal(s, c.arg[1]))
    [] c.op = "getDeductionsForWeek" -> Some(getDeductionsForWeekLocal(s, c.arg[1]))
    [] c.op = "getDeductionsForDateRange" ->
         Some(getDeductionsForDateRangeLocal(s, tz, c.arg[1], c.arg[2]))
    [] c.op = "getStoreSalesForWeek" ->
         Some(getStoreSalesForWeekLocal(s, c.arg[1], c.arg[2]))
    [] c.op = "getStoreMonthlyExpenses" ->
         getStoreMonthlyExpensesLocal(s, c.arg[1], c.arg[2])

\* the step is a facade call in fallback mode other than clearAllData
FallbackCall ==
  /\ mode = "local"
  /\ calls' = calls + 1
  /\ last'.op # "clearAllData"

\* C15: in fallback mode no facade call other than clearAllData changes the
\* cache, and every list call resolves, not from the cache, with what local
\* storage holds at the time of the call.
C15_FallbackBypassesCache ==
  [][FallbackCall =>
       /\ cache' = cache
       /\ last'.kind = "list" =>
            last'.ok /\ ~last'.hit /\ last'.val = FreshLocal(last', ls)]_vars

\* in fallback mode a list call right after a write of its family returned
\* rows, the cache being empty
C15_Witness ==
  /\ mode = "local"
  /\ cache = <<>>
  /\ last.kind = "list" /\ prev.kind = "write" /\ prev.op # "clearAllData"
  /\ last.fam = prev.fam
  /\ last.val # Null /\ last.val # Some(<<>>)

----------------------------------------------------------------------------
(* C16 *)

\* the list calls of the facade, over the inputs of the model
ListCalls ==
  {[op |-> o, arg |-> <<>>] : o \in {"getInventory", "getSales", "getEmployees", "getStores"}}
    \cup {[op |-> "getAttendanceForWeek", arg |-> r] : r \in DateRanges}
    \cup {[op |-> "getWeeklyPaymentsForWeek", arg |-> <<w>>] : w \in Weeks}
    \cup {[op |-> "getDeductionsForWeek", arg |-> <<w>>] : w \in Weeks}
    \cup {[op |-> "getDeductionsForDateRange", arg |-> r] : r \in WeekRanges}
    \cup {[op |-> "getStoreSalesForWeek", arg |-> r] : r \in DateRanges}
    \cup {[op |-> "getStoreMonthlyExpenses", arg |-> <<x, m>>] :
             x \in StoreIds, m \in YearMonths}

\* the list call c is the read that shows the natural key the write w wrote
Matches(w, c) ==
  CASE w.op = "setWeeklyPaid" -> c.op = "getWeeklyPaymentsForWeek" /\ c.arg[1] = w.arg[2]
    [] w.op = "saveDeduction" -> c.op = "getDeductionsForWeek" /\ c.arg[1] = w.arg[2]
    [] w.op = "saveStoreDailySale" ->
         c.op = "getStoreSalesForWeek" /\ c.arg[1] <= w.arg[2] /\ w.arg[2] <= c.arg[2]
    [] w.op = "saveStoreMonthlyExpenses" ->
         c.op = "getStoreMonthlyExpenses" /\ c.arg = <<w.arg[1], w.arg[2]>>

\* the row of the matching read that carries the value written
Written(w) ==
  CASE w.op = "setWeeklyPaid" -> [employeeId |-> w.arg[1], paid |-> w.arg[3]]
    [] w.op = "saveDeduction" -> [employeeId |-> w.arg[1], amount |-> w.arg[3]]
    [] w.op = "saveStoreDailySale" ->
         [storeId |-> w.arg[1], date |-> w.arg[2], amount |-> w.arg[3]]
    [] w.op = "saveStoreMonthlyExpenses" -> w.arg[3]

\* the row of a list belongs to the natural key of the write w
OfKey(w, row) ==
  IF w.op = "saveStoreDailySale"
  THEN row.storeId = w.arg[1] /\ row.date = w.arg[2]
  ELSE row.employeeId = w.arg[1]

\* what the write w must have done to the result of the list call c, `before`
\* and `after` being the results on the storage before and after the write
UpsertThenRead(w, c, before, after) ==
  IF w.op = "saveStoreMonthlyExpenses"
  THEN after = IF Matches(w, c) THEN Some(Written(w)) ELSE before
  ELSE IF Matches(w, c)
  THEN /\ SelectSeq(after.v, LAMBDA row : OfKey(w, row)) = <<Written(w)>>
       /\ SelectSeq(after.v, LAMBDA row : ~OfKey(w, row))
            = SelectSeq(before.v, LAMBDA row : ~OfKey(w, row))
  ELSE IF w.op = "saveDeduction" /\ c.op = "getDeductionsForDateRange"
  THEN \* a sum per employee over the weeks of the range
       SelectSeq(after.v, LAMBDA row : ~OfKey(w, row))
         = SelectSeq(before.v, LAMBDA row : ~OfKey(w, row))
  ELSE after = before

\* the step is one of the four upserts on the fallback backend
FallbackUpsert ==
  /\ mode = "local"
  /\ calls' = calls + 1
  /\ last'.op \in {"setWeeklyPaid", "saveDeduction", "saveStoreDailySale",
                    "saveStoreMonthlyExpenses"}

\* C16: on the fallback backend, after setWeeklyPaid, saveDeduction,
\* saveStoreDailySale or saveStoreMonthlyExpenses wrote value v under natural
\* key k, the matching read returns v for k (once), and what is read for every
\* other key of the family and for every other family is what it was.
C16_FallbackUpsert ==
  [][FallbackUpsert =>
       \A c \in ListCalls :
         UpsertThenRead(last', c, FreshLocal(c, ls), FreshLocal(c, ls'))]_vars

\* a deduction was saved for a week, then for another week, then again for
\* the first week with another amount
C16_Witness ==
  /\ mode = "local"
  /\ last.op = "saveDeduction" /\ prev.op = "saveDeduction"
  /\ prev.arg[2] # last.arg[2]
  /\ getDeductionsForWeekLocal(ls, last.arg[2])
       = <<[employeeId |-> last.arg[1], amount |-> last.arg[3]]>>
  /\ Len(getDeductionsLocal(ls)) = 2
  /\ getDeductionsLocal(ls)[1].weekStart = last.arg[2]
  /\ calls = 3

----------------------------------------------------------------------------
(* SpecStores: stores and the employees linked to them, on both backends;   *)
(* a request of a remote call may return an error *)

MaxStoreCalls == 3

InitStores == InitWith({"remote", "local"}, {TRUE}, {UTC}, 3, MaxStoreCalls)

NextStores ==
  \/ \E x \in StoreInputs, f \in Fails(3) : SaveStore(x, f)
  \/ \E x \in StoreIds, f \in Fails(1) : DeleteStore(x, f)
  \/ \E e \in EmployeeInputs, f \in Fails(2) : SaveEmployee(e, f)
  \/ \E f \in Fails(1) : GetEmployees(f)
  \/ \E f \in Fails(1) : GetStores(f)
  \/ \E x \in StoreIds, d \in Dates, a \in Amounts, f \in Fails(1) :
       SaveStoreDailySale(x, d, a, f)
  \/ \E r \in DateRanges, f \in Fails(1) : GetStoreSalesForWeek(r[1], r[2], f)

SpecStores == InitStores /\ [][NextStores]_vars

----------------------------------------------------------------------------
(* C17 *)

\* the employees the backend in use holds, as getEmployees lists them
EmployeesIn(d, s) ==
  IF mode = "remote" THEN getEmployeesSupabase(d, 0).val.v ELSE getEmployeesLocal(s)

\* the stores the backend in use holds
StoresIn(d, s) ==
  IF mode = "remote" THEN getStoresSupabase(d, 0).val.v ELSE getStoresLocal(s)

\* storeId of employee id among the employees es (NoId: null)
StoreOf(es, id) == es[FindIndex(es, LAMBDA e : e.id = id)].storeId

\* the step is a saveStore that resolves, for a store that exists, with a
\* list of linked employees
SaveExistingStore ==
  /\ calls' = calls + 1
  /\ last'.op = "saveStore" /\ last'.ok
  /\ last'.arg.id # NoId
  /\ HasId(StoresIn(db, ls), last'.arg.id)
  /\ ~last'.arg.linkedEmployeeIds.null

\* C17: after saveStore for an existing store S with linkedEmployeeIds L, on
\* either backend, the employees are the same as before, those with storeId S
\* are exactly those whose id is in L, and an employee not in L has no store
\* if it was linked to S and otherwise the store it had.
C17_LinkedEmployees ==
  [][SaveExistingStore =>
       LET S == last'.arg.id
           L == last'.arg.linkedEmployeeIds.v
           before == EmployeesIn(db, ls)
           after == EmployeesIn(db', ls')
       IN /\ Len(after) = Len(before)
          /\ \A i \in 1..Len(before) :
               LET id == before[i].id
               IN /\ HasId(after, id)
                  /\ StoreOf(after, id) = S <=> id \in L
                  /\ id \notin L =>
                       StoreOf(after, id) = IF before[i].storeId = S THEN NoId
                                           ELSE before[i].storeId]_vars

----------------------------------------------------------------------------
(* C18 *)

\* the step is a deleteStore on the fallback backend
FallbackDeleteStore ==
  /\ mode = "local"
  /\ calls' = calls + 1
  /\ last'.op = "deleteStore"

\* C18: on the fallback backend deleteStore(S) removes store S, its entry in
\* the store order and every daily sale of S, leaves the other stores and
\* sales, and leaves every employee as it was, storeId included.
C18_FallbackDeleteStore ==
  [][FallbackDeleteStore =>
       LET S == last'.arg
       IN /\ getStoresLocal(ls') = SelectSeq(getStoresLocal(ls), LAMBDA x : x.id # S)
          /\ getStoreOrderLocal(ls')
               = SelectSeq(getStoreOrderLocal(ls), LAMBDA oid : oid # S)
          /\ getStoreSalesLocal(ls')
               = SelectSeq(getStoreSalesLocal(ls), LAMBDA x : x.storeId # S)
          /\ getEmployeesLocal(ls') = getEmployeesLocal(ls)]_vars

\* deleteStore removed a store that had a daily sale and a linked employee,
\* and the employee still carries the store's id
C18_Witness ==
  /\ mode = "local"
  /\ last.op = "deleteStore"
  /\ prev.op = "saveStoreDailySale" /\ prev.arg[1] = last.arg
  /\ getStoreSalesLocal(ls) = <<>>
  /\ ~HasId(getStoresLocal(ls), last.arg)
  /\ \E i \in 1..Len(getEmployeesLocal(ls)) : getEmployeesLocal(ls)[i].storeId = last.arg

----------------------------------------------------------------------------
(* C19 *)

\* the step is a saveEmployee or saveStore without an id that resolves on the
\* remote backend
RemoteInsert ==
  /\ mode = "remote"
  /\ calls' = calls + 1
  /\ last'.op \in {"saveEmployee", "saveStore"} /\ last'.ok
  /\ last'.arg.id = NoId

\* the rows of table d.stores or d.employees, whichever the write op is about
TableOf(d, op) == IF op = "saveStore" THEN d.stores ELSE d.employees

\* the family's list as the backend returns it on the tables d
ListOf(d, op) ==
  IF op = "saveStore" THEN getStoresSupabase(d, 0).val.v
  ELSE getEmployeesSupabase(d, 0).val.v

\* C19: in remote mode a saveEmployee or saveStore without an id inserts a row
\* whose display_order is the largest display_order of the table plus one (0
\* for an empty table), and the family's list shows the new row last.
C19_AppendedLast ==
  [][RemoteInsert =>
       LET before == TableOf(db, last'.op)
           after == TableOf(db', last'.op)
           list == ListOf(db', last'.op)
       IN /\ Len(after) = Len(before) + 1
          /\ after[Len(after)].id = last'.val.v.id
          /\ after[Len(after)].display_order = MaxDisplayOrder(before) + 1
          /\ list[Len(list)].id = last'.val.v.id]_vars

----------------------------------------------------------------------------
(* SpecStoreSales: daily sales of a store and the week's list and total,    *)
(* on both backends *)

MaxSaleCalls == 4

\* StoresManager.getWeeklyTotal(storeId) over the rows loaded for the week
getWeeklyTotal(storeSales, storeId) ==
  SumSeq(MapSeq(SelectSeq(storeSales, LAMBDA x : x.storeId = storeId),
                LAMBDA x : x.amount))

SaleDates == {1, 2, 3, 4}
SaleAmounts == {1000, 2000, 1500}
SaleRanges == {<<1, 3>>, <<2, 3>>, <<2, 2>>}

InitStoreSales == InitWith({"remote", "local"}, {TRUE}, {UTC}, 0, MaxSaleCalls)

NextStoreSales ==
  \/ \E x \in StoreIds, d \in SaleDates, a \in SaleAmounts :
       SaveStoreDailySale(x, d, a, 0)
  \/ \E r \in SaleRanges : GetStoreSalesForWeek(r[1], r[2], 0)

SpecStoreSales == InitStoreSales /\ [][NextStoreSales]_vars

----------------------------------------------------------------------------
(* C20 *)

\* every StoreDailySale row the backend in use holds
AllStoreSales ==
  IF mode = "remote"
  THEN {[storeId |-> r.store_id, date |-> r.date, amount |-> r.amount] :
          r \in Range(db.store_daily_sales)}
  ELSE Range(ls.storeDailySales)

\* C20: getStoreSalesForWeek(start, end) returns exactly the daily sales whose
\* date d has start <= d <= end, each once; when these are three rows of one
\* store with 1000, 2000 and 1500, the store's weekly total is 4500.
C20_WeekOfSales ==
  (last.op = "getStoreSalesForWeek" /\ last.ok) =>
    LET rows == last.val.v
        inside == {r \in AllStoreSales : last.arg[1] <= r.date /\ r.date <= last.arg[2]}
    IN /\ Range(rows) = inside
       /\ Len(rows) = Cardinality(inside)
       /\ \A x \in StoreIds :
            {<<r.storeId, r.amount>> : r \in inside} = {<<x, 1000>>, <<x, 2000>>, <<x, 1500>>}
              /\ Cardinality(inside) = 3
              => getWeeklyTotal(rows, x) = 4500

\* the week 1..3 was listed with sales of 1000, 2000 and 1500 on its three
\* days, total 4500
C20_Witness ==
  /\ last.op = "getStoreSalesForWeek" /\ last.ok
  /\ last.arg = <<1, 3>>
  /\ {<<r.date, r.amount>> : r \in Range(last.val.v)} = {<<1, 1000>>, <<2, 2000>>, <<3, 1500>>}
  /\ Len(last.val.v) = 3
  /\ getWeeklyTotal(last.val.v, 2) = 4500

----------------------------------------------------------------------------
(* SpecRace: a list fetch on its way while awaited writes of the same       *)
(* family run, on the remote backend *)

MaxRaceCalls == 3

InitRace == InitWith({"remote"}, {TRUE}, {UTC}, 0, MaxRaceCalls)

NextRace ==
  \/ \E r \in DateRanges :
       IssueRead("getAttendanceForWeek", "attendance", r, <<"attendance:", r[1], r[2]>>)
  \/ IssueRead("getInventory", "inventory", <<>>, <<"inventory">>)
  \/ \E i \in 1..MaxRaceCalls : ServeRead(i)
  \/ \E i \in 1..MaxRaceCalls : SettleRead(i)
  \/ \E e \in EmployeeIds, d \in Dates : ToggleAttendance(e, d, 0)
  \/ \E i \in ItemInputs : SaveInventoryItem(i, 0)
  \/ \E r \in DateRanges : GetAttendanceForWeek(r[1], r[2], 0)
  \/ GetInventory(0)

SpecRace == InitRace /\ [][NextRace]_vars

----------------------------------------------------------------------------
(* C21 *)

\* the step is an awaited list call made while no call is in flight
ListWhenQuiet ==
  /\ ListCall
  /\ inflight.reads = <<>>
  /\ last'.ok

\* C21: in remote mode, once no call is in flight, a list call returns what
\* the backend holds, whatever fetches of its family were in flight while
\* writes of the family completed.
C21_NoStaleFetchLeftBehind == [][ListWhenQuiet => last'.val = Fresh(last')]_vars

----------------------------------------------------------------------------
(* C22 *)

\* C22: in remote mode with every call awaited, a list call answered from the
\* cache returns what the backend would return at that moment.
C22_HitsAreCurrent ==
  (mode = "remote" /\ last.kind = "list" /\ last.ok /\ last.hit) => last.val = Fresh(last)

----------------------------------------------------------------------------
(* SpecSales: sales of the item in stock, recorded one after the other on   *)
(* the fallback backend and overlapping in time on the remote backend *)

MaxSaleRecords == 3

InitSales == InitWith({"remote", "local"}, {TRUE}, {UTC}, 0, MaxSaleRecords)

NextSales ==
  \/ \E x \in SaleInputs : SaleInsert(x)
  \/ \E i \in 1..MaxSaleRecords : SaleReadInventory(i)
  \/ \E i \in 1..MaxSaleRecords : SaleUpdateInventory(i)
  \/ \E i \in 1..MaxSaleRecords : SaleSettle(i)
  \/ \E x \in SaleInputs : RecordSale(x, 0)
  \/ GetInventory(0)

SpecSales == InitSales /\ [][NextSales]_vars

----------------------------------------------------------------------------
(* C23 *)

\* inventory and sales rows of the backend in use, as [id, quantity] and
\* [itemId, quantity]
StockNow ==
  IF mode = "remote" THEN getInventorySupabase(db, 0).val.v ELSE getInventoryLocal(ls)

SoldNow ==
  IF mode = "remote" THEN getSalesSupabase(db, 0).val.v ELSE getSalesLocal(ls)

\* quantity of item id before any sale
StartQuantity(id) ==
  LET inv == IF mode = "remote" THEN SeedDb.inventory ELSE SeedStorage.inventory
  IN inv[FindIndex(inv, LAMBDA it : it.id = id)].quantity

\* C23: once every recordSale has resolved, the quantity on hand of each item
\* is its starting quantity minus the quantities of the sales recorded for it.
C23_StockMatchesSales ==
  inflight.writes = <<>> =>
    \A k \in 1..Len(StockNow) :
      StockNow[k].quantity
        = StartQuantity(StockNow[k].id)
            - SumSeq(MapSeq(SelectSeq(SoldNow, LAMBDA x : x.itemId = StockNow[k].id),
                            LAMBDA x : x.quantity))

----------------------------------------------------------------------------
(* C24 *)

MaxClicks == 3

InitClicks == InitWith({"remote"}, {TRUE}, {UTC}, 0, MaxClicks)

\* AttendanceManager after its first load, cells being clicked
NextClicks ==
  \/ \E e \in EmployeeIds, d \in Dates : ToggleSelect(e, d)
  \/ \E i \in 1..MaxClicks : ToggleWrite(i)
  \/ \E i \in 1..MaxClicks : ToggleSettle(i)

SpecClicks == InitClicks /\ [][NextClicks]_vars

\* isPresent(employeeId, dateStr) of AttendanceManager
isPresent(employeeId, dateStr) ==
  \E k \in 1..Len(ui.attendance) :
    ui.attendance[k].employeeId = employeeId /\ ui.attendance[k].date = dateStr

\* the attendance table holds a row for the pair
RowExists(employeeId, dateStr) ==
  \E k \in 1..Len(db.attendance) :
    db.attendance[k].employee_id = employeeId /\ db.attendance[k].date = dateStr

\* a toggleAttendance call for the pair has not settled yet
Toggling(employeeId, dateStr) ==
  \E i \in 1..Len(inflight.writes) :
    /\ inflight.writes[i].op = "toggleAttendance"
    /\ inflight.writes[i].employeeId = employeeId
    /\ inflight.writes[i].date = dateStr

\* C24: in remote mode, once every toggleAttendance call for a cell has settled,
\* the cell of AttendanceManager is marked present exactly when the attendance
\* table holds a row for that employee and date
C24_CellMatchesRow ==
  \A e \in EmployeeIds, d \in Dates :
    ~Toggling(e, d) => (isPresent(e, d) <=> RowExists(e, d))
----------------------------------------------------------------------------
(* C25 *)

MaxCreations == 3

InitCreations == InitWith({"remote"}, {TRUE}, {UTC}, 0, MaxCreations)

\* employees and stores being created, the calls not awaited
NextCreations ==
  \/ \E e \in EmployeeInputs : CreateReadMax("saveEmployee", e)
  \/ \E s \in StoreInputs : CreateReadMax("saveStore", s)
  \/ \E i \in 1..MaxCreations : CreateInsert(i)
  \/ \E i \in 1..MaxCreations : CreateSettle(i)

SpecCreations == InitCreations /\ [][NextCreations]_vars

\* the creations of one table that have inserted their row and not settled
Inserted ==
  {i \in 1..Len(inflight.writes) :
     /\ inflight.writes[i].op \in {"saveEmployee", "saveStore"}
     /\ inflight.writes[i].stage = "inserted"
     /\ inflight.writes[i].ok}

\* the row a creation inserted
RowOf(w) ==
  LET table == IF w.op = "saveEmployee" THEN db.employees ELSE db.stores
  IN table[CHOOSE k \in 1..Len(table) : table[k].id = w.data.v.id]

\* two creations on one table read the maximum before either of them inserted
\* and were given the same answer
ReadTogether(a, b) ==
  /\ a.op = b.op
  /\ a.seen <= b.data.v.id
  /\ b.seen <= a.data.v.id
  /\ a.maxRow = b.maxRow

\* C25: in remote mode, two creations of employees, or of stores, that both read
\* the current maximum display_order before either inserted, insert rows with
\* the same display_order, one more than the maximum they read
C25_SameDisplayOrder ==
  \A i \in Inserted, j \in Inserted :
    (i # j /\ ReadTogether(inflight.writes[i], inflight.writes[j])) =>
      /\ RowOf(inflight.writes[i]).display_order = RowOf(inflight.writes[j]).display_order
      /\ RowOf(inflight.writes[i]).display_order =
           IF inflight.writes[i].maxRow.null THEN 0 ELSE inflight.writes[i].maxRow.v + 1

\* two rows of one table share a display_order after two creations that
\* read together
C25_Witness ==
  \E i \in Inserted, j \in Inserted :
    /\ i # j
    /\ ReadTogether(inflight.writes[i], inflight.writes[j])
    /\ RowOf(inflight.writes[i]).id # RowOf(inflight.writes[j]).id
    /\ RowOf(inflight.writes[i]).display_order = RowOf(inflight.writes[j]).display_order
----------------------------------------------------------------------------
(* C26 *)

\* the step is saveInventoryItem on the fallback backend with an item that
\* has no id
SaveNewItemLocal ==
  /\ mode = "local"
  /\ calls' = calls + 1
  /\ last'.op = "saveInventoryItem"
  /\ last'.arg.id = NoId

\* C26: on the fallback backend, saveInventoryItem with an item that has no id
\* adds exactly one entry to the stored inventory and leaves the entries that
\* were there as they were
C26_AddsOneEntry ==
  [][SaveNewItemLocal =>
       /\ Len(ls'.inventory) = Len(ls.inventory) + 1
       /\ SubSeq(ls'.inventory, 1, Len(ls.inventory)) = ls.inventory]_vars
----------------------------------------------------------------------------
(* C27 *)

MaxTwinCalls == 5

\* both backends empty: db is the store of a session on the remote backend,
\* ls the store of a session on the fallback backend
InitTwin == InitWith({"remote"}, {FALSE}, {UTC}, 0, MaxTwinCalls)

\* the same awaited call made in both sessions; r and l are what the remote
\* and the fallback function make of it, and a created row is given the same
\* identifier on both
TwinCall(op, fam, arg, r, l) ==
  /\ calls < budget
  /\ db' = r.db
  /\ ls' = l.ls
  /\ nextId' = Max(r.nid, l.nid)
  /\ calls' = calls + 1
  /\ prev' = last
  /\ last' = [op |-> op, fam |-> fam, kind |-> "write", arg |-> arg, ok |-> r.ok,
              val |-> r.val, hit |-> FALSE, err |-> r.err]
  /\ UNCHANGED <<mode, cache, now, tz, faults, budget, inflight, ui>>

\* the row exists in both sessions, or the call creates it
KnownToBoth(remoteRows, localRows, id) ==
  id = NoId \/ (HasId(remoteRows, id) /\ HasId(localRows, id))

NextTwin ==
  \/ \E e \in EmployeeInputs :
       /\ KnownToBoth(db.employees, ls.employees, e.id)
       /\ KnownToBoth(db.stores, ls.stores, e.storeId)
       /\ TwinCall("saveEmployee", "employees", e,
                   saveEmployeeSupabase(db, e, 0), saveEmployeeLocal(ls, e))
  \/ \E s \in StoreInputs :
       /\ KnownToBoth(db.stores, ls.stores, s.id)
       /\ \A e \in s.linkedEmployeeIds.v : KnownToBoth(db.employees, ls.employees, e)
       /\ TwinCall("saveStore", "stores", s,
                   saveStoreSupabase(db, s, 0), saveStoreLocal(ls, s))
  \/ \E id \in 1..MaxTwinCalls :
       /\ KnownToBoth(db.stores, ls.stores, id)
       /\ TwinCall("deleteStore", "stores", id,
                   deleteStoreSupabase(db, id, 0), deleteStoreLocal(ls, id))
  \/ \E id \in 1..MaxTwinCalls :
       /\ KnownToBoth(db.employees, ls.employees, id)
       /\ TwinCall("deleteEmployee", "employees", id,
                   deleteEmployeeSupabase(db, id, 0), deleteEmployeeLocal(ls, id))

SpecTwin == InitTwin /\ [][NextTwin]_vars

\* C27: after the same awaited saveEmployee, saveStore, deleteStore and
\* deleteEmployee calls from empty data, getEmployees and getStores report the
\* same rows, with the same employee-to-store links, on the remote and on the
\* fallback backend
C27_BackendsAgree ==
  /\ Range(getEmployeesSupabase(db, 0).val.v) = Range(getEmployeesLocal(ls))
  /\ Range(getStoresSupabase(db, 0).val.v) = Range(getStoresLocal(ls))
----------------------------------------------------------------------------
(* C28 *)

MaxSubmits == 4

InitTracker == InitWith({"remote", "local"}, {TRUE}, {UTC}, 0, MaxSubmits)

SaleQuantities == {1, 2}

\* SalesTracker in use: mounted, sales submitted, loads coming back
NextTracker ==
  \/ TrackerMount
  \/ \E i \in 1..MaxSubmits : ServeRead(i)
  \/ \E i \in 1..MaxSubmits : TrackerLoaded(i)
  \/ \E id \in ItemIds, q \in SaleQuantities : TrackerSubmit(id, q)

SpecTracker == InitTracker /\ [][NextTracker]_vars

\* the inventory as the backend in use stores it
StoredInventory == IF mode = "remote" THEN db.inventory ELSE ls.inventory

\* the sales as the backend in use stores them
StoredSales == IF mode = "remote" THEN db.sales ELSE ls.sales

\* the stored quantity of an item
StoredQuantity(itemId) ==
  StoredInventory[CHOOSE k \in 1..Len(StoredInventory) :
                    StoredInventory[k].id = itemId].quantity

\* the step is a sale recorded by handleSubmit
SaleSubmitted ==
  /\ calls' = calls + 1
  /\ last'.op = "recordSale"
  /\ last'.ok
  /\ Len(StoredSales') = Len(StoredSales) + 1

\* C28: a sale recorded through SalesTracker's submit handler is for no more
\* than the item's stored quantity when recordSale runs, so no stored quantity
\* becomes negative
C28_NeverOversold ==
  [][SaleSubmitted =>
       /\ last'.arg.quantity <= StoredQuantity(last'.arg.itemId)
       /\ \A k \in 1..Len(StoredInventory') : StoredInventory'[k].quantity >= 0]_vars
----------------------------------------------------------------------------
(* C29 *)

MaxRangeCalls == 4

InitRanges == InitWith({"remote", "local"}, {TRUE}, {UTC}, 0, MaxRangeCalls)

\* daily sales are entered, then Analytics is opened and its date range changed
NextRanges ==
  \/ \E x \in StoreIds, d \in SaleDates, a \in SaleAmounts :
       ui.analytics.range.null /\ SaveStoreDailySale(x, d, a, 0)
  \/ \E r \in SaleRanges : AnalyticsRange(r[1], r[2])
  \/ \E i \in 1..MaxRangeCalls : ServeRead(i)
  \/ \E i \in 1..MaxRangeCalls : AnalyticsLoaded(i)

SpecRanges == InitRanges /\ [][NextRanges]_vars

\* profitSummary: revenue of a store, summed over the component's sales
revenue(sales, storeId) ==
  SumSeq(MapSeq(SelectSeq(sales, LAMBDA x : x.storeId = storeId),
                LAMBDA x : x.amount))

\* the daily sales the backend in use holds within a range
SalesWithin(dateFrom, dateTo) ==
  IF mode = "remote" THEN getStoreSalesForWeekSupabase(db, dateFrom, dateTo, 0).val.v
  ELSE getStoreSalesForWeekLocal(ls, dateFrom, dateTo)

\* C29: once every load of Analytics has settled, the revenue shown for a
\* store is the sum of the store's daily sales within the range that is
\* selected now
C29_RevenueOfSelectedRange ==
  (inflight.reads = <<>> /\ ~ui.analytics.range.null) =>
    \A x \in StoreIds :
      revenue(ui.analytics.sales, x)
        = revenue(SalesWithin(ui.analytics.range.v[1], ui.analytics.range.v[2]), x)
----------------------------------------------------------------------------
(* C30 *)

MaxGateCalls == 2

InitGate == InitWith({"remote", "local"}, {TRUE}, {UTC}, 0, MaxGateCalls)

\* the edit controls of the components, each as its component offers it:
\* InventoryManager and SalesTracker disable theirs with disabled={!canEdit},
\* AttendanceManager and StoresManager render theirs unconditionally
NextGate ==
  \/ AuthStateChange
  \/ \E i \in ItemInputs : canEdit /\ SaveInventoryItem(i, 0)
  \/ \E i \in ItemIds : canEdit /\ DeleteInventoryItem(i, 0)
  \/ \E x \in SaleInputs : canEdit /\ RecordSale(x, 0)
  \/ \E e \in EmployeeIds, d \in Dates : ToggleAttendance(e, d, 0)
  \/ \E e \in {x \in EmployeeInputs : x.storeId = NoId} : SaveEmployee(e, 0)
  \/ \E e \in EmployeeIds : DeleteEmployee(e, 0)
  \/ \E x \in StoreIds : DeleteStore(x, 0)
  \/ \E x \in StoreIds, d \in Dates, a \in Amounts : SaveStoreDailySale(x, d, a, 0)

SpecGate == InitGate /\ [][NextGate]_vars

\* the step is a facade write invoked by a component
UiWrite ==
  /\ calls' = calls + 1
  /\ last'.kind = "write"

\* C30: with the remote backend configured and no user signed in, no control
\* of the UI invokes a facade write; without a remote backend, or with a user
\* signed in, canEdit is true
C30_EditsNeedCanEdit ==
  [][/\ UiWrite => canEdit
     /\ (mode # "remote" \/ ui.user) => canEdit]_vars
====
